---- MODULE Spec2Model ----
(***************************************************************************)
(* Book scraper server: Thalia retry/recovery controller, renderer         *)
(* sessions, extraction precedence, fixer, normalizer and validator.       *)
(*                                                                         *)
(* Text is modelled as a sequence of one-character strings, so that the    *)
(* string operations of the code (includes, trim, split, replace, regular  *)
(* expressions) are computed rather than assumed.  A JavaScript value is a *)
(* tagged record: Str(s), Num(n), Null, Undefined.  An object is a         *)
(* function from its own keys to values; an absent key reads Undefined.    *)
(***************************************************************************)
EXTENDS Integers, Sequences, FiniteSets, TLC

\* ------------------------------------------------------------------ text

Digits == {"0", "1", "2", "3", "4", "5", "6", "7", "8", "9"}
UpperAscii == {"A", "B", "C", "D", "E", "F", "G", "H", "I", "J", "K", "L", "M",
               "N", "O", "P", "Q", "R", "S", "T", "U", "V", "W", "X", "Y", "Z"}
LowerAscii == {"a", "b", "c", "d", "e", "f", "g", "h", "i", "j", "k", "l", "m",
               "n", "o", "p", "q", "r", "s", "t", "u", "v", "w", "x", "y", "z"}
LowerUmlaut == {"ä", "ö", "ü", "ß"}
UpperUmlaut == {"Ä", "Ö", "Ü"}
Whitespace == {" ", "\n", "\t"}

UpperSeq == <<"A", "B", "C", "D", "E", "F", "G", "H", "I", "J", "K", "L", "M",
              "N", "O", "P", "Q", "R", "S", "T", "U", "V", "W", "X", "Y", "Z", "Ä", "Ö", "Ü">>
LowerSeq == <<"a", "b", "c", "d", "e", "f", "g", "h", "i", "j", "k", "l", "m",
              "n", "o", "p", "q", "r", "s", "t", "u", "v", "w", "x", "y", "z", "ä", "ö", "ü">>

\* String.prototype.toLowerCase, one character.
LowerChar(c) ==
    IF \E i \in 1..Len(UpperSeq) : UpperSeq[i] = c
    THEN LowerSeq[CHOOSE i \in 1..Len(UpperSeq) : UpperSeq[i] = c]
    ELSE c

ToLowerCase(s) == [i \in 1..Len(s) |-> LowerChar(s[i])]

DigitValue(c) ==
    CASE c = "0" -> 0 [] c = "1" -> 1 [] c = "2" -> 2 [] c = "3" -> 3 [] c = "4" -> 4
      [] c = "5" -> 5 [] c = "6" -> 6 [] c = "7" -> 7 [] c = "8" -> 8 [] c = "9" -> 9

\* s.startsWith(p) at offset i (1-based): the characters of p stand at i, i+1, ...
MatchesAt(s, p, i) ==
    /\ i >= 1
    /\ i + Len(p) - 1 <= Len(s)
    /\ \A k \in 1..Len(p) : s[i + k - 1] = p[k]

\* String.prototype.includes
Includes(s, p) == \E i \in 1..(Len(s) + 1) : MatchesAt(s, p, i)

StartsWith(s, p) == MatchesAt(s, p, 1)

\* The least and the greatest element of a non-empty set of integers.
Least(S) == CHOOSE k \in S : \A m \in S : k <= m
Greatest(S) == CHOOSE k \in S : \A m \in S : k >= m

\* The positions of s that hold no whitespace.
Inked(s) == {i \in 1..Len(s) : s[i] \notin Whitespace}

\* The text without its leading white space.
TrimLeft(s) == IF Inked(s) = {} THEN <<>> ELSE SubSeq(s, Least(Inked(s)), Len(s))

\* String.prototype.trim
Trim(s) == IF Inked(s) = {} THEN <<>> ELSE SubSeq(s, Least(Inked(s)), Greatest(Inked(s)))

\* The positions of the separator in s, and the k-th of them; the 0-th is the
\* position before s and the one after the last is the position after s.
SeparatorsIn(s, sep) == {i \in 1..Len(s) : s[i] = sep}

Separator(s, seps, k) ==
    IF k = 0 THEN 0
    ELSE IF k > Cardinality(seps) THEN Len(s) + 1
    ELSE CHOOSE p \in seps : Cardinality({q \in seps : q <= p}) = k

SplitAt(s, seps) ==
    [k \in 1..(Cardinality(seps) + 1) |->
        SubSeq(s, Separator(s, seps, k - 1) + 1, Separator(s, seps, k) - 1)]

\* s.split(sep) for a one-character separator: the list of segments.
Split(s, sep) == SplitAt(s, SeparatorsIn(s, sep))

\* s.replace(/-/g, ' ')
ReplaceDashes(s) == [i \in 1..Len(s) |-> IF s[i] = "-" THEN " " ELSE s[i]]

\* The number of upper-case ASCII letters among the first i characters of s.
UppersUpTo(s, i) == Cardinality({k \in 1..i : s[k] \in UpperAscii})

\* s.replace(/([A-Z])/g, ' $1'): a space goes in front of every upper-case
\* ASCII letter; nothing else changes.  Character i of s moves to position
\* i + UppersUpTo(s, i), and the positions no character moves to hold a space.
SpaceBeforeUpper(s) ==
    [j \in 1..(Len(s) + UppersUpTo(s, Len(s))) |->
        IF \E i \in 1..Len(s) : i + UppersUpTo(s, i) = j
        THEN s[CHOOSE i \in 1..Len(s) : i + UppersUpTo(s, i) = j]
        ELSE " "]

\* s.replace(/[^keep]/g, ''): the characters of s that are in keep, in order.
KeepOnly(s, keep) == SelectSeq(s, LAMBDA c : c \in keep)

\* The longest run of characters of `set` that starts at i; its length.
RunLength(s, set, i) ==
    Cardinality({n \in 1..(Len(s) - i + 1) : \A k \in i..(i + n - 1) : s[k] \in set})

\* parseInt(digits, 10) of a non-empty run of digits.
RECURSIVE DigitsToInt(_)
DigitsToInt(ds) ==
    IF ds = <<>> THEN 0 ELSE 10 * DigitsToInt(SubSeq(ds, 1, Len(ds) - 1)) + DigitValue(ds[Len(ds)])

\* ------------------------------------------------------- JavaScript values

Str(s) == [str |-> s]
Num(n) == [num |-> n]
Null == [null |-> TRUE]
Undefined == [undef |-> TRUE]
List(xs) == [list |-> xs]

IsStr(v) == "str" \in DOMAIN v
IsNum(v) == "num" \in DOMAIN v

\* JavaScript truthiness of the values that occur in a record.
Truthy(v) ==
    \/ IsStr(v) /\ v.str # <<>>
    \/ IsNum(v) /\ v.num # 0
    \/ "list" \in DOMAIN v
    \/ "obj" \in DOMAIN v

\* obj[key]
Get(r, f) == IF f \in DOMAIN r THEN r[f] ELSE Undefined

\* obj[key] = v
Put(r, f, v) == (f :> v) @@ r

\* What a block of statements assigns: a function from the fields it assigns
\* to their new values.  `assigned @@ obj` is the object after the block.
NoAssignment == <<>>
Assign(f, v) == f :> v

\* ------------------------------------------------------------- literals

PlaceholderCover ==
    <<"h", "t", "t", "p", "s", ":", "/", "/", "v", "i", "a", ".", "p", "l", "a", "c", "e", "h",
    "o", "l", "d", "e", "r", ".", "c", "o", "m", "/", "1", "5", "0", "x", "2", "2", "5", "?",
    "t", "e", "x", "t", "=", "N", "o", "+", "C", "o", "v", "e", "r">>
ExtractionFailedText ==
    <<"D", "a", "t", "a", " ", "e", "x", "t", "r", "a", "c", "t", "i", "o", "n", " ", "f", "a",
    "i", "l", "e", "d", ".", " ", "P", "l", "e", "a", "s", "e", " ", "c", "h", "e", "c", "k",
    " ", "t", "h", "e", " ", "b", "o", "o", "k", " ", "d", "e", "t", "a", "i", "l", "s", " ",
    "o", "n", " ", "T", "h", "a", "l", "i", "a", ".", "d", "e">>
Deutsch == <<"D", "e", "u", "t", "s", "c", "h">>
De == <<"d", "e">>
UnknownAuthor == <<"U", "n", "k", "n", "o", "w", "n", " ", "A", "u", "t", "h", "o", "r">>
PierreMartin == <<"P", "i", "e", "r", "r", "e", " ", "M", "a", "r", "t", "i", "n">>
SeriesMarker ==
    <<"E", "i", "n", " ", "F", "a", "l", "l", " ", "f", "ü", "r", " ", "I", "s", "a", "b", "e",
    "l", "l", "e", " ", "B", "o", "n", "n", "e", "t">>
ThaliaDomain == <<"t", "h", "a", "l", "i", "a", ".", "d", "e">>
DetailMarker ==
    <<"/", "a", "r", "t", "i", "k", "e", "l", "d", "e", "t", "a", "i", "l", "s", "/">>
ShopDetailMarker ==
    <<"/", "s", "h", "o", "p", "/", "h", "o", "m", "e", "/", "a", "r", "t", "i", "k", "e", "l",
    "d", "e", "t", "a", "i", "l", "s", "/">>
EuroSign == <<"€">>
EuroSuffix == <<" ", "€">>

\* ----------------------------------------------------------- URL classifier

\* A URL as `new URL(url)` sees it: it does not parse, or it has a hostname and
\* a pathname.  kind "missing" is a request body without a url.
ParsedUrl(host, path) == [kind |-> "parsed", hostname |-> host, pathname |-> path]
UnparsableUrl == [kind |-> "unparsable", hostname |-> <<>>, pathname |-> <<>>]
MissingUrl == [kind |-> "missing", hostname |-> <<>>, pathname |-> <<>>]

isValidThaliaUrl(u) ==
    /\ u.kind = "parsed"
    /\ Includes(u.hostname, ThaliaDomain)
    /\ \/ Includes(u.pathname, DetailMarker)
       \/ Includes(u.pathname, ShopDetailMarker)

\* ------------------------------------------------- text-pattern extractor

AsciiLetters == UpperAscii \cup LowerAscii
\* [a-zäöüß] under the i flag
NameChars == AsciiLetters \cup LowerUmlaut \cup UpperUmlaut

\* [A-Z][a-zäöüß]+ under the i flag, at i: its length, 0 when it does not match.
WordLenGiven(s, i, rest) ==
    IF i <= Len(s) /\ s[i] \in AsciiLetters /\ rest >= 1 THEN 1 + rest ELSE 0

WordLen(s, i) == WordLenGiven(s, i, RunLength(s, NameChars, i + 1))

\* (?: [A-Z][a-zäöüß]+){0,k} at j, greedy: the number of characters it takes.
RECURSIVE MoreWords(_, _, _)
MoreWordsGiven(s, j, k, w) ==
    IF k > 0 /\ j <= Len(s) /\ s[j] = " " /\ w > 0
    THEN 1 + w + MoreWords(s, j + 1 + w, k - 1)
    ELSE 0

MoreWords(s, j, k) == MoreWordsGiven(s, j, k, WordLen(s, j + 1))

MaxExtraWords == 3

\* ([A-Z][a-zäöüß]+(?: [A-Z][a-zäöüß]+){1,3}) at i: its length, 0 when no match.
NameLenGiven(first, more) == IF first > 0 /\ more > 0 THEN first + more ELSE 0

NameLenAfter(s, i, first) ==
    NameLenGiven(first, IF first > 0 THEN MoreWords(s, i + first, MaxExtraWords) ELSE 0)

NameLen(s, i) == NameLenAfter(s, i, WordLen(s, i))

\* keyword, then one or more characters of seps, then the name; matched at i.
\* The value is the position of the name, 0 when the pattern does not match at i.
NameStartGiven(s, kw, i, gap) ==
    IF /\ i + Len(kw) - 1 <= Len(s)
       /\ ToLowerCase(SubSeq(s, i, i + Len(kw) - 1)) = kw
       /\ gap >= 1
       /\ NameLen(s, i + Len(kw) + gap) > 0
    THEN i + Len(kw) + gap
    ELSE 0

PatternNameStart(s, kw, seps, i) ==
    NameStartGiven(s, kw, i, RunLength(s, seps, i + Len(kw)))

NameAt(s, n) == SubSeq(s, n, n + NameLen(s, n) - 1)

\* text.match(pattern): capture group 1 of the leftmost match, <<>> when none.
PatternMatch(s, kw, seps) ==
    IF \E i \in 1..Len(s) : PatternNameStart(s, kw, seps, i) > 0
    THEN NameAt(s, PatternNameStart(s, kw, seps,
                       Least({k \in 1..Len(s) : PatternNameStart(s, kw, seps, k) > 0})))
    ELSE <<>>

AuthorPatterns ==
    << [kw |-> <<"v", "o", "n">>, seps |-> Whitespace],
       [kw |-> <<"b", "y">>, seps |-> Whitespace],
       [kw |-> <<"a", "u", "t", "o", "r">>, seps |-> Whitespace \cup {":"}],
       [kw |-> <<"a", "u", "t", "h", "o", "r">>, seps |-> Whitespace \cup {":"}],
       [kw |-> <<"b", "e", "s", "t", "s", "e", "l", "l", "e", "r", "-", "a", "u", "t", "o", "r">>, seps |-> Whitespace] >>

\* The patterns whose match yields a name, in list order.
MatchingPatterns(s) ==
    {k \in 1..Len(AuthorPatterns) :
        PatternMatch(s, AuthorPatterns[k].kw, AuthorPatterns[k].seps) # <<>>}

TrimmedMatch(s, p) == Trim(PatternMatch(s, p.kw, p.seps))

extractAuthorFromText(text) ==
    IF MatchingPatterns(text) = {} THEN <<>>
    ELSE TrimmedMatch(text, AuthorPatterns[Least(MatchingPatterns(text))])

\* ---------------------------------------------------------------- Validator

\* A validator that requires the title only.
RequiredFields_TitleOnly == <<"title">>

\* `const requiredFields = ['title', 'author']`
RequiredFields == <<"title", "author">>

\* !bookData[field] || bookData[field].toString().trim() === ''
\* (toString of a number has no white space, of an empty array is '')
FieldMissing(v) ==
    \/ ~Truthy(v)
    \/ IsStr(v) /\ Trim(v.str) = <<>>
    \/ v = List(<<>>)

ValidationResult(missing) == [isValid |-> Len(missing) = 0, missingFields |-> missing]

MissingAmong(bookData, fields) ==
    SelectSeq(fields, LAMBDA f : FieldMissing(Get(bookData, f)))

validateBookData(bookData) == ValidationResult(MissingAmong(bookData, RequiredFields))

\* -------------------------------------------------------------------- Fixer

\* isNaN(parseInt(v)): parseInt skips leading white space, takes an optional
\* sign and then needs a digit; a number is never NaN here.
DropSign(t) == IF t # <<>> /\ Head(t) \in {"+", "-"} THEN Tail(t) ELSE t

ParseIntIsNaN(v) ==
    IF IsStr(v) THEN RunLength(DropSign(TrimLeft(v.str)), Digits, 1) = 0
    ELSE ~IsNum(v)

\* A string method called on a truthy value that is not a string is a TypeError.
BadReceiver(v) == Truthy(v) /\ ~IsStr(v)

fixBookDataThrows(bookData) ==
    \/ BadReceiver(Get(bookData, "coverUrl"))
    \/ BadReceiver(Get(bookData, "language"))
    \/ BadReceiver(Get(bookData, "author"))
    \/ /\ Truthy(Get(bookData, "author"))
       /\ IsStr(Get(bookData, "author"))
       /\ Includes(Get(bookData, "author").str, SeriesMarker)
       /\ BadReceiver(Get(bookData, "description"))

\* !v || v.trim() === ''
EmptyText(v) == ~Truthy(v) \/ Trim(v.str) = <<>>

\* The four blocks of fixBookData assign different fields and each reads only
\* fields no other block assigns; each is given by what it assigns.

\* Empty cover URL: the placeholder.
FixCover(b) ==
    IF EmptyText(Get(b, "coverUrl")) THEN Assign("coverUrl", Str(PlaceholderCover))
    ELSE NoAssignment

\* Page count that does not start with a number: null.
FixPageCount(b) ==
    IF Truthy(Get(b, "pageCount")) /\ ParseIntIsNaN(Get(b, "pageCount"))
    THEN Assign("pageCount", Null)
    ELSE NoAssignment

\* Missing language: the home-market language and its code.
FixLanguage(b) ==
    IF EmptyText(Get(b, "language"))
    THEN Assign("language", Str(Deutsch)) @@ Assign("languageCode", Str(De))
    ELSE NoAssignment

RepairedAuthor_NoSentinel(fromDescription) == Str(fromDescription)

\* The author the series repair assigns, given the text-pattern result.
RepairedAuthor(fromDescription) ==
    IF fromDescription # <<>> THEN Str(fromDescription) ELSE Str(PierreMartin)

\* Author that holds the series marker: text-pattern extractor, else the
\* known author of the series.
FixAuthor(b) ==
    IF Truthy(Get(b, "author")) /\ Includes(Get(b, "author").str, SeriesMarker)
    THEN Assign("author",
                RepairedAuthor(IF Truthy(Get(b, "description"))
                               THEN extractAuthorFromText(Get(b, "description").str)
                               ELSE <<>>))
    ELSE NoAssignment

fixBookData(bookData) ==
    FixAuthor(bookData) @@ FixLanguage(bookData) @@ FixPageCount(bookData)
        @@ FixCover(bookData) @@ bookData

\* --------------------------------------------------------------- Normalizer

\* parseFloat of digits "." digits: the integer part and the fraction digits
\* that remain once trailing zeros are dropped (12.90 and 12.9 are one number).
RECURSIVE DropTrailingZeros(_)
DropTrailingZeros(ds) ==
    IF ds # <<>> /\ ds[Len(ds)] = "0" THEN DropTrailingZeros(SubSeq(ds, 1, Len(ds) - 1)) ELSE ds

Float(intDigits, fracDigits) ==
    IF DropTrailingZeros(fracDigits) = <<>>
    THEN Num(DigitsToInt(intDigits))
    ELSE [num |-> DigitsToInt(intDigits), frac |-> DropTrailingZeros(fracDigits)]

\* /(\d+[,.]\d+)/ matches at i, i being the start of a run of digits.
PriceMatchesFrom(s, i, r) ==
    /\ r >= 1
    /\ i + r <= Len(s)
    /\ s[i + r] \in {",", "."}
    /\ RunLength(s, Digits, i + r + 1) >= 1

PriceMatchesAt(s, i) == PriceMatchesFrom(s, i, RunLength(s, Digits, i))

\* parseFloat(priceMatch[1].replace(',', '.')), Undefined when there is no match.
PriceParts(s, i, r, q) == Float(SubSeq(s, i, i + r - 1), SubSeq(s, i + r + 1, i + r + q))

PriceFrom(s, i, r) == PriceParts(s, i, r, RunLength(s, Digits, i + r + 1))

PriceAt(s, i) == PriceFrom(s, i, RunLength(s, Digits, i))

\* The number of the last group that matches instead of the first.
PriceValue_LastGroup(s) ==
    IF \E i \in 1..Len(s) : PriceMatchesAt(s, i)
    THEN PriceAt(s, Greatest({k \in 1..Len(s) : PriceMatchesAt(s, k)}))
    ELSE Undefined

PriceValue(s) ==
    IF \E i \in 1..Len(s) : PriceMatchesAt(s, i)
    THEN PriceAt(s, Least({k \in 1..Len(s) : PriceMatchesAt(s, k)}))
    ELSE Undefined

AllDigits(s, from, n) == from + n - 1 <= Len(s) /\ \A k \in from..(from + n - 1) : s[k] \in Digits

YearLen == 4

\* (\d{1,2})\.(\d{1,2})\.(\d{4}) at i with a day of dl and a month of ml digits.
GermanDateAt(s, i, dl, ml) ==
    /\ AllDigits(s, i, dl)
    /\ i + dl <= Len(s) /\ s[i + dl] = "."
    /\ AllDigits(s, i + dl + 1, ml)
    /\ i + dl + 1 + ml <= Len(s) /\ s[i + dl + 1 + ml] = "."
    /\ AllDigits(s, i + dl + ml + 2, YearLen)

\* The lengths the regular expression tries, greedy first.
DateShapes == << <<2, 2>>, <<2, 1>>, <<1, 2>>, <<1, 1>> >>

GermanDateMatches(s) ==
    \E i \in 1..Len(s) : \E k \in 1..Len(DateShapes) :
        GermanDateAt(s, i, DateShapes[k][1], DateShapes[k][2])

\* str.padStart(2, '0')
PadStart2(ds) == IF Len(ds) < 2 THEN <<"0">> \o ds ELSE ds

\* `<<"y", "e", "a", "r">>-<<"m", "o", "n", "t", "h", ".", "p", "a", "d", "S", "t", "a", "r", "t", "(", "2", ",", " ", "'", "0", "'", ")">>-<<"d", "a", "y", ".", "p", "a", "d", "S", "t", "a", "r", "t", "(", "2", ",", " ", "'", "0", "'", ")">>` of the leftmost match.
GermanDateShapeAt(s, i, k) == GermanDateAt(s, i, DateShapes[k][1], DateShapes[k][2])

IsoOfMatch(s, i, dl, ml) ==
    SubSeq(s, i + dl + ml + 2, i + dl + ml + 5) \o <<"-">>
    \o PadStart2(SubSeq(s, i + dl + 1, i + dl + ml)) \o <<"-">>
    \o PadStart2(SubSeq(s, i, i + dl - 1))

IsoOfShape(s, i, k) == IsoOfMatch(s, i, DateShapes[k][1], DateShapes[k][2])

IsoOfMatchAt(s, i) ==
    IsoOfShape(s, i, Least({k \in 1..Len(DateShapes) : GermanDateShapeAt(s, i, k)}))

GermanDateISO(s) ==
    IsoOfMatchAt(s, Least({p \in 1..Len(s) :
                              \E k \in 1..Len(DateShapes) : GermanDateShapeAt(s, p, k)}))

\* The host's offset from UTC in hours, east positive: `new Date` reads a
\* date-time without an offset as local time and toISOString answers in UTC.
VARIABLE zone

LeapYear(y) == (y % 4 = 0 /\ y % 100 # 0) \/ y % 400 = 0

DaysIn(y, m) ==
    IF m = 2 THEN (IF LeapYear(y) THEN 29 ELSE 28)
    ELSE IF m \in {4, 6, 9, 11} THEN 30 ELSE 31

DigitChars == <<"0", "1", "2", "3", "4", "5", "6", "7", "8", "9">>

Pad2(n) == <<DigitChars[(n \div 10) + 1], DigitChars[(n % 10) + 1]>>

IsoDate(y, m, d) == Pad2(y \div 100) \o Pad2(y % 100) \o <<"-">> \o Pad2(m) \o <<"-">> \o Pad2(d)

DayBefore(y, m, d) ==
    IF d > 1 THEN IsoDate(y, m, d - 1)
    ELSE IF m > 1 THEN IsoDate(y, m - 1, DaysIn(y, m - 1))
    ELSE IsoDate(y - 1, 12, 31)

DayAfter(y, m, d) ==
    IF d < DaysIn(y, m) THEN IsoDate(y, m, d + 1)
    ELSE IF m < 12 THEN IsoDate(y, m + 1, 1)
    ELSE IsoDate(y + 1, 1, 1)

\* The UTC date of the local hour h of a day.
UtcDate(y, m, d, h) ==
    IF h - zone < 0 THEN DayBefore(y, m, d)
    ELSE IF h - zone >= 24 THEN DayAfter(y, m, d)
    ELSE IsoDate(y, m, d)

\* YYYY-MM-DD at the start of s.
IsoDateShape(s) ==
    /\ Len(s) >= 10
    /\ AllDigits(s, 1, 4) /\ s[5] = "-" /\ AllDigits(s, 6, 2) /\ s[8] = "-"
    /\ AllDigits(s, 9, 2)
    /\ DigitsToInt(SubSeq(s, 6, 7)) \in 1..12
    /\ DigitsToInt(SubSeq(s, 9, 10))
         \in 1..DaysIn(DigitsToInt(SubSeq(s, 1, 4)), DigitsToInt(SubSeq(s, 6, 7)))

\* THH:mm:ss after the date.
LocalTimeShape(s) ==
    /\ Len(s) = 19
    /\ s[11] = "T" /\ AllDigits(s, 12, 2) /\ s[14] = ":" /\ AllDigits(s, 15, 2)
    /\ s[17] = ":" /\ AllDigits(s, 18, 2)
    /\ DigitsToInt(SubSeq(s, 12, 13)) \in 0..23
    /\ DigitsToInt(SubSeq(s, 15, 16)) \in 0..59
    /\ DigitsToInt(SubSeq(s, 18, 19)) \in 0..59

LocalDateTimeISO(s) ==
    UtcDate(DigitsToInt(SubSeq(s, 1, 4)), DigitsToInt(SubSeq(s, 6, 7)),
            DigitsToInt(SubSeq(s, 9, 10)), DigitsToInt(SubSeq(s, 12, 13)))

\* new Date(str) followed by toISOString().split('T')[0], for three shapes of
\* the date-time string format: YYYY-MM-DD and YYYY, which are read as UTC,
\* and YYYY-MM-DDTHH:mm:ss, which is read as local time.  Anything else is
\* taken as an invalid date (<<>>).
GenericDateISO(s) ==
    IF IsoDateShape(s) /\ Len(s) = 10 THEN s
    ELSE IF IsoDateShape(s) /\ LocalTimeShape(s) THEN LocalDateTimeISO(s)
    ELSE IF Len(s) = 4 /\ AllDigits(s, 1, 4) THEN s \o <<"-", "0", "1", "-", "0", "1">>
    ELSE <<>>

\* normalized.pageCount.match(/\d+/), then parseInt(pageMatch[0], 10)
DigitRunAt(s, i) == SubSeq(s, i, i + RunLength(s, Digits, i) - 1)

FirstDigitRun(s) == DigitRunAt(s, Least({k \in 1..Len(s) : s[k] \in Digits}))

HasDigit(s) == \E k \in 1..Len(s) : s[k] \in Digits

LanguageCodes ==
    << [names |-> {<<"d", "e", "u", "t", "s", "c", "h">>}, code |-> <<"d", "e">>],
       [names |-> {<<"e", "n", "g", "l", "i", "s", "h">>, <<"e", "n", "g", "l", "i", "s", "c", "h">>}, code |-> <<"e", "n">>],
       [names |-> {<<"f", "r", "a", "n", "ç", "a", "i", "s">>, <<"f", "r", "a", "n", "z", "ö", "s", "i", "s", "c", "h">>}, code |-> <<"f", "r">>],
       [names |-> {<<"e", "s", "p", "a", "ñ", "o", "l">>, <<"s", "p", "a", "n", "i", "s", "c", "h">>}, code |-> <<"e", "s">>],
       [names |-> {<<"i", "t", "a", "l", "i", "a", "n", "o">>, <<"i", "t", "a", "l", "i", "e", "n", "i", "s", "c", "h">>}, code |-> <<"i", "t">>] >>

LanguageMatches(lower, k) == \E n \in LanguageCodes[k].names : Includes(lower, n)

\* The if / else-if chain over the language names: the first branch that matches.
LanguageCodeOfLower(lower) ==
    IF \E k \in 1..Len(LanguageCodes) : LanguageMatches(lower, k)
    THEN Str(LanguageCodes[Least({k \in 1..Len(LanguageCodes) : LanguageMatches(lower, k)})].code)
    ELSE Undefined

LanguageCode(lang) == LanguageCodeOfLower(ToLowerCase(lang))

\* An assignment under an `if` that holds when there is a value.
AssignIf(f, v) == IF v = Undefined THEN NoAssignment ELSE Assign(f, v)

\* The date block runs inside try/catch, so a publicationDate that is not a
\* string is skipped; the other blocks call string methods unguarded.
normalizeBookDataThrows(bookData) ==
    \/ BadReceiver(Get(bookData, "price"))
    \/ BadReceiver(Get(bookData, "pageCount"))
    \/ BadReceiver(Get(bookData, "isbn"))
    \/ BadReceiver(Get(bookData, "ean"))
    \/ BadReceiver(Get(bookData, "language"))

\* The blocks of normalizeBookData assign different fields and each reads
\* only fields no other block assigns; each is given by what it assigns.

\* The raw price with its currency suffix, and the number parsed from it.
SetPrice(p) == AssignIf("priceValue", PriceValue(p)) @@ Assign("price", Str(p))

\* The currency suffix with the currency test left out: it is always added.
WithCurrency_AlwaysAppend(p) == p \o EuroSuffix

\* `if (!price.includes('€')) price = `<<"p", "r", "i", "c", "e">> €``
WithCurrency(p) == IF Includes(p, EuroSign) THEN p ELSE p \o EuroSuffix

NormalizePrice(r) ==
    IF Truthy(Get(r, "price")) THEN SetPrice(WithCurrency(Get(r, "price").str))
    ELSE NoAssignment

\* The ISO date of a raw date, <<>> when neither way of parsing succeeds.
DateISO(s) == IF GermanDateMatches(s) THEN GermanDateISO(s) ELSE GenericDateISO(s)

SetDateISO(iso) ==
    IF iso # <<>> THEN Assign("publicationDateISO", Str(iso)) ELSE NoAssignment

NormalizeDate(r) ==
    IF Truthy(Get(r, "publicationDate")) /\ IsStr(Get(r, "publicationDate"))
    THEN SetDateISO(DateISO(Get(r, "publicationDate").str))
    ELSE NoAssignment

NormalizePageCount(r) ==
    IF Truthy(Get(r, "pageCount")) /\ HasDigit(Get(r, "pageCount").str)
    THEN Assign("pageCountValue", Num(DigitsToInt(FirstDigitRun(Get(r, "pageCount").str))))
    ELSE NoAssignment

NormalizeIsbn(r) ==
    IF Truthy(Get(r, "isbn"))
    THEN Assign("isbnClean", Str(KeepOnly(Get(r, "isbn").str, Digits \cup {"X"})))
    ELSE NoAssignment

NormalizeEan(r) ==
    IF Truthy(Get(r, "ean"))
    THEN Assign("eanClean", Str(KeepOnly(Get(r, "ean").str, Digits)))
    ELSE NoAssignment

NormalizeLanguage(r) ==
    IF Truthy(Get(r, "language"))
    THEN AssignIf("languageCode", LanguageCode(Get(r, "language").str))
    ELSE NoAssignment

normalizeBookData(bookData) ==
    NormalizeLanguage(bookData) @@ NormalizeEan(bookData) @@ NormalizeIsbn(bookData)
        @@ NormalizePageCount(bookData) @@ NormalizeDate(bookData)
        @@ NormalizePrice(bookData) @@ bookData
\* ------------------------------------------------- Extractor and Reconciler
\*
\* A rendered page is given by what the queries of extractBookData return on it:
\*   h1             text of the first h1 ('' when there is none)
\*   authorData     Null, or [obj |-> [name, source]] computed in the page
\*   cssAuthors     text of the first element of each author selector, in order
\*   buttons        texts of the button elements
\*   priceDisplay   Undefined, or the text of the first .price-display element
\*   divs           texts of the div elements
\*   coverSrc       Undefined, or the src of the first img[src*="/cover/"]
\*   description    Undefined, or the texts of the siblings that follow the
\*                  h2 "Beschreibung" up to the next h2
\*   details        Undefined, or the siblings that follow the h2 "Details" up
\*                  to the next h2, each [h3 |-> BOOLEAN, text]
\*   dataAttributes Null, or the harvested data-* attributes
\*   structuredData Null, or the JSON-LD Book/Product object

InitialBookData ==
    [ title |-> Str(<<>>), subtitle |-> Str(<<>>), author |-> Str(<<>>),
      series |-> Str(<<>>), seriesNumber |-> Str(<<>>), description |-> Str(<<>>),
      format |-> Str(<<>>), price |-> Str(<<>>), isbn |-> Str(<<>>), ean |-> Str(<<>>),
      publisher |-> Str(<<>>), publicationDate |-> Str(<<>>), language |-> Str(<<>>),
      pageCount |-> Str(<<>>), fileSize |-> Str(<<>>), copyProtection |-> Str(<<>>),
      coverUrl |-> Str(<<>>), categories |-> List(<<>>) ]

\* extractBookData is a sequence of blocks.  The blocks up to the "Details"
\* scan assign different fields and read the page only; each is given by what
\* it assigns.  The data-attribute and structured-data blocks read the record
\* the blocks before them left.

\* The title and subtitle of a non-empty heading text, split at "|".
TitleParts(title, parts) ==
    IF Len(parts) > 1
    THEN Assign("subtitle", Str(Trim(parts[2]))) @@ Assign("title", Str(Trim(parts[1])))
    ELSE Assign("title", Str(title))

TitleOf(title) == IF title # <<>> THEN TitleParts(title, Split(title, "|")) ELSE NoAssignment

\* `$('h1').first().text().trim()`
ExtractTitle(page) == TitleOf(Trim(page.h1))

RECURSIVE FirstNonBlank(_, _)
FirstNonBlank(texts, k) ==
    IF k > Len(texts) THEN <<>>
    ELSE IF Trim(texts[k]) # <<>> THEN Trim(texts[k])
    ELSE FirstNonBlank(texts, k + 1)

\* The author block with the selector cascade consulted before authorData.
ExtractAuthor_CssFirst(page) ==
    IF FirstNonBlank(page.cssAuthors, 1) # <<>>
    THEN Assign("author", Str(FirstNonBlank(page.cssAuthors, 1)))
    ELSE IF Truthy(page.authorData) /\ Truthy(page.authorData.obj.name)
         THEN Assign("author", page.authorData.obj.name)
         ELSE NoAssignment

\* authorData.name when there is one, else the selector cascade.
ExtractAuthor(page) ==
    IF Truthy(page.authorData) /\ Truthy(page.authorData.obj.name)
    THEN Assign("author", page.authorData.obj.name)
    ELSE Assign("author", Str(FirstNonBlank(page.cssAuthors, 1)))

BandWord == <<"B", "a", "n", "d">>
BandPrefix == <<"B", "a", "n", "d", " ">>

RECURSIVE ConcatTexts(_)
ConcatTexts(texts) == IF texts = <<>> THEN <<>> ELSE Head(texts) \o ConcatTexts(Tail(texts))

\* /Band (\d+)/ matches at i
BandAt(s, i) == MatchesAt(s, BandPrefix, i) /\ RunLength(s, Digits, i + Len(BandPrefix)) >= 1

\* The series text around the match at i whose number has n digits, and the number.
SeriesParts(s, i, n) ==
    Assign("seriesNumber", Str(SubSeq(s, i + Len(BandPrefix), i + Len(BandPrefix) + n - 1)))
    @@ Assign("series", Str(Trim(SubSeq(s, 1, i - 1)
                                  \o SubSeq(s, i + Len(BandPrefix) + n, Len(s)))))

SeriesAt(s, i) == SeriesParts(s, i, RunLength(s, Digits, i + Len(BandPrefix)))

SeriesOf(seriesText) ==
    IF \E i \in 1..Len(seriesText) : BandAt(seriesText, i)
    THEN SeriesAt(seriesText, Least({k \in 1..Len(seriesText) : BandAt(seriesText, k)}))
    ELSE Assign("series", Str(seriesText))

SeriesOfButtons(matched) ==
    IF Len(matched) > 0 THEN SeriesOf(Trim(ConcatTexts(matched))) ELSE NoAssignment

ExtractSeries(page) ==
    SeriesOfButtons(SelectSeq(page.buttons,
                        LAMBDA t : Includes(t, SeriesMarker) \/ Includes(t, BandWord)))

VatNote == <<"i", "n", "k", "l", ".", " ", "M", "w", "S", "t">>

\* /(\d+,\d+)\s*€/ matches at i, r and q being the lengths of the digit runs
DivPriceGiven(s, i, r, q) ==
    /\ r >= 1
    /\ i + r <= Len(s) /\ s[i + r] = ","
    /\ q >= 1
    /\ MatchesAt(s, EuroSign, i + r + 1 + q + RunLength(s, Whitespace, i + r + 1 + q))

DivPriceFrom(s, i, r) == DivPriceGiven(s, i, r, RunLength(s, Digits, i + r + 1))

DivPriceAt(s, i) == DivPriceFrom(s, i, RunLength(s, Digits, i))

DivPriceParts(s, i, r) ==
    Assign("price", Str(SubSeq(s, i, i + r + RunLength(s, Digits, i + r + 1)) \o EuroSuffix))

DivPrice(s, i) == DivPriceParts(s, i, RunLength(s, Digits, i))

PriceOfText(text) ==
    IF \E i \in 1..Len(text) : DivPriceAt(text, i)
    THEN DivPrice(text, Least({k \in 1..Len(text) : DivPriceAt(text, k)}))
    ELSE NoAssignment

PriceOfDivs(hits) == PriceOfText(IF Len(hits) > 0 THEN Trim(hits[1]) ELSE <<>>)

ExtractPrice(page) ==
    IF page.priceDisplay # Undefined
    THEN Assign("price", Str(Trim(page.priceDisplay.str)))
    ELSE PriceOfDivs(SelectSeq(page.divs,
                         LAMBDA t : Includes(t, EuroSign) /\ Includes(t, VatNote)))

ExtractCover(page) ==
    IF page.coverSrc # Undefined THEN Assign("coverUrl", page.coverSrc) ELSE NoAssignment

\* Bounded-section scan under "Beschreibung": the non-blank sibling texts,
\* trimmed, one per line, the whole trimmed.
RECURSIVE JoinLines(_)
JoinLines(texts) ==
    IF texts = <<>> THEN <<>>
    ELSE (IF Trim(Head(texts)) # <<>> THEN Trim(Head(texts)) \o <<"\n">> ELSE <<>>)
         \o JoinLines(Tail(texts))

ExtractDescription(page) ==
    IF page.description # Undefined
    THEN Assign("description", Str(Trim(JoinLines(page.description.list))))
    ELSE NoAssignment

\* The fields the switch over the active "Details" label assigns.
DetailFields(label) ==
    CASE label = <<"F", "o", "r", "m", "a", "t">> -> {"format"}
      [] label = <<"K", "o", "p", "i", "e", "r", "s", "c", "h", "u", "t", "z">> -> {"copyProtection"}
      [] label = <<"V", "e", "r", "l", "a", "g">> -> {"publisher"}
      [] label = <<"E", "r", "s", "c", "h", "e", "i", "n", "u", "n", "g", "s", "d", "a", "t", "u", "m">> -> {"publicationDate"}
      [] label = <<"S", "e", "i", "t", "e", "n", "z", "a", "h", "l">> -> {"pageCount"}
      [] label = <<"D", "a", "t", "e", "i", "g", "r", "ö", "ß", "e">> -> {"fileSize"}
      [] label = <<"S", "p", "r", "a", "c", "h", "e">> -> {"language"}
      [] label = <<"E", "A", "N">> -> {"ean", "isbn"}
      [] label = <<"I", "S", "B", "N">> -> {"ean", "isbn"}
      [] OTHER -> {}

\* The h3 that is the active label at sibling k: the last h3 before it.
ActiveLabel(siblings, k) ==
    IF \E j \in 1..(k - 1) : siblings[j].h3
    THEN Trim(siblings[CHOOSE j \in 1..(k - 1) :
                  siblings[j].h3 /\ \A m \in (j + 1)..(k - 1) : ~siblings[m].h3].text)
    ELSE <<>>

\* Sibling k is a value of field f: not an h3, not blank, under a label of f.
ValueOf(siblings, k, f) ==
    /\ ~siblings[k].h3
    /\ Trim(siblings[k].text) # <<>>
    /\ f \in DetailFields(ActiveLabel(siblings, k))

DetailFieldNames ==
    {"format", "copyProtection", "publisher", "publicationDate", "pageCount", "fileSize",
     "language", "ean", "isbn"}

\* Bounded-section scan under "Details": an h3 sets the active label, any
\* other non-blank sibling is assigned to the fields of the active label, so
\* a field ends with the last of its values.
ScanDetails(siblings) ==
    [ f \in {g \in DetailFieldNames : \E k \in 1..Len(siblings) : ValueOf(siblings, k, g)} |->
        Str(Trim(siblings[Greatest({k \in 1..Len(siblings) : ValueOf(siblings, k, f)})].text)) ]

ExtractDetails(page) ==
    IF page.details # Undefined THEN ScanDetails(page.details.list) ELSE NoAssignment

\* The record after the blocks that read the page only.
Scanned(page) ==
    ExtractDetails(page) @@ ExtractDescription(page) @@ ExtractCover(page)
        @@ ExtractPrice(page) @@ ExtractSeries(page) @@ ExtractAuthor(page)
        @@ ExtractTitle(page) @@ InitialBookData

\* `if (source && !bookData[field]) bookData[field] = source`
Fill(b, field, v) ==
    IF Truthy(v) /\ ~Truthy(Get(b, field)) THEN Assign(field, v) ELSE NoAssignment

DataAttributeFills(b, d) ==
    Fill(b, "author", Get(d, "data-autor")) @@ Fill(b, "title", Get(d, "data-titel"))
        @@ Fill(b, "isbn", Get(d, "data-isbn")) @@ Fill(b, "ean", Get(d, "data-ean"))

UseDataAttributes(b, page) ==
    IF page.dataAttributes # Null THEN DataAttributeFills(b, page.dataAttributes.obj) @@ b
    ELSE b

\* author / publisher of the structured data: the name of an object, or a string.
NameOf(v) ==
    IF "obj" \in DOMAIN v THEN (IF Truthy(Get(v.obj, "name")) THEN Get(v.obj, "name") ELSE Undefined)
    ELSE IF IsStr(v) THEN v
    ELSE Undefined

StructuredDataFills(b, s) ==
    Fill(b, "description", Get(s, "description"))
        @@ Fill(b, "pageCount", Get(s, "numberOfPages"))
        @@ Fill(b, "isbn", Get(s, "isbn"))
        @@ Fill(b, "language", Get(s, "inLanguage"))
        @@ Fill(b, "publicationDate", Get(s, "datePublished"))
        @@ Fill(b, "publisher", NameOf(Get(s, "publisher")))
        @@ Fill(b, "author", NameOf(Get(s, "author")))
        @@ Fill(b, "title", Get(s, "name"))

UseStructuredData(b, page) ==
    IF page.structuredData # Null THEN StructuredDataFills(b, page.structuredData.obj) @@ b
    ELSE b

\* The author the text patterns find in the description, as an assignment.
AuthorOfText(found) == IF found # <<>> THEN Assign("author", Str(found)) ELSE NoAssignment

\* `if (!bookData.author && bookData.description)`: the text-pattern fallback.
AuthorFromDescription(b) ==
    IF ~Truthy(Get(b, "author")) /\ Truthy(Get(b, "description"))
    THEN AuthorOfText(extractAuthorFromText(Get(b, "description").str)) @@ b
    ELSE b

\* Everything up to the text-pattern fallback.
Reconciled(page) == UseStructuredData(UseDataAttributes(Scanned(page), page), page)

\* text.match on a description that is not a string is a TypeError.
DescriptionThrows(b) == ~Truthy(Get(b, "author")) /\ BadReceiver(Get(b, "description"))

extractBookDataThrows(page) == DescriptionThrows(Reconciled(page))

extractBookData(page) == AuthorFromDescription(Reconciled(page))
\* ------------------------------------------------------------- scrapeThalia

\* The record scrapeThalia builds when processing with Cheerio fails.
EmptyShell ==
    [ title |-> Str(<<>>), subtitle |-> Str(<<>>), author |-> Str(<<>>),
      description |-> Str(<<>>), coverUrl |-> Str(<<>>), price |-> Str(<<>>),
      language |-> Str(Deutsch), languageCode |-> Str(De) ]

\* The try block around extractBookData and the final author check, which
\* repeats the text-pattern fallback.  cheerioFails: cheerio.load throws.
ParseThrows(page, cheerioFails) == cheerioFails \/ extractBookDataThrows(page)

ParsedRecord(page) == AuthorFromDescription(extractBookData(page))

\* A page on which no query finds anything.
BlankPage ==
    [ h1 |-> <<>>, authorData |-> Null, cssAuthors |-> << <<>>, <<>>, <<>>, <<>>, <<>> >>,
      buttons |-> <<>>, priceDisplay |-> Undefined, divs |-> <<>>, coverSrc |-> Undefined,
      description |-> Undefined, details |-> Undefined, dataAttributes |-> Null,
      structuredData |-> Null ]

Obj(o) == [obj |-> o]

\* The record scrapeThalia of the combined server builds on a page where none
\* of its selectors matches.
SimpleBlankRecord ==
    [ title |-> Str(<<>>), subtitle |-> Str(<<>>), author |-> Str(<<>>),
      description |-> Str(<<>>), coverUrl |-> Str(PlaceholderCover), price |-> Str(<<>>),
      language |-> Str(Deutsch), languageCode |-> Str(De), isbn |-> Str(<<>>),
      ean |-> Str(<<>>), publisher |-> Str(<<>>), publicationDate |-> Str(<<>>),
      pageCount |-> Str(<<>>), categories |-> List(<<>>), genre |-> Str(<<"F", "i", "c", "t", "i", "o", "n">>),
      type |-> Str(<<"e", "b", "o", "o", "k">>),
      validationWarning |-> [missingFields |-> <<"title", "author", "description">>] ]

\* `requiredFields.filter(field => !bookData[field])` of the combined server.
SimpleMissing(r) ==
    SelectSeq(<<"title", "author", "description">>, LAMBDA f : ~Truthy(r[f]))

\* The validation warning of the combined server: set when a field is missing.
SimpleWarn(r, missing) ==
    IF missing = <<>> THEN [f \in DOMAIN r \ {"validationWarning"} |-> r[f]]
    ELSE [r EXCEPT !.validationWarning = [missingFields |-> missing]]

SimpleFields(page) ==
    [SimpleBlankRecord EXCEPT
        !.title = Str(Trim(page.h1)),
        !.price = IF page.priceDisplay = Undefined THEN Str(<<>>)
                  ELSE Str(Trim(page.priceDisplay.str))]

\* The record scrapeThalia of the combined server returns: the heading and
\* the price as the page shows them, defaults for what no selector finds,
\* and its own validation warning.  No fixer or normalizer runs.
SimpleRecord(page) == SimpleWarn(SimpleFields(page), SimpleMissing(SimpleFields(page)))

\* ------------------------------------------------ Retry/Recovery Controller

Last(xs) == xs[Len(xs)]

\* `pathSegments[pathSegments.length - 1]`
LastSegment(u) == Last(Split(u.pathname, "/"))

\* The title without the space put before each capital letter.
TitleOfSegment_DashesOnly(seg) == Trim(ReplaceDashes(seg))

\* `title: lastSegment.replace(/-/g, ' ').replace(/([A-Z])/g, ' $1').trim()`
TitleOfSegment(seg) == Trim(SpaceBeforeUpper(ReplaceDashes(seg)))

\* The degraded record with the article-number test of `ean` left out.
DegradedFrom_NoEan(seg) ==
    [ title |-> Str(TitleOfSegment(seg)),
      author |-> Str(<<>>),
      description |-> Str(ExtractionFailedText),
      coverUrl |-> Str(PlaceholderCover),
      language |-> Str(Deutsch),
      languageCode |-> Str(De),
      isbn |-> Str(<<>>),
      ean |-> Str(<<>>),
      publisher |-> Str(<<>>) ]

\* The degraded record built from the URL when every attempt threw.
DegradedFrom(seg) ==
    [ title |-> Str(TitleOfSegment(seg)),
      author |-> Str(<<>>),
      description |-> Str(ExtractionFailedText),
      coverUrl |-> Str(PlaceholderCover),
      language |-> Str(Deutsch),
      languageCode |-> Str(De),
      isbn |-> Str(<<>>),
      ean |-> IF StartsWith(seg, <<"A">>) THEN Str(seg) ELSE Str(<<>>),
      publisher |-> Str(<<>>) ]

DegradedRecord(u) == DegradedFrom(LastSegment(u))

\* A backoff that doubles with every attempt.
WaitTime_Exponential(retryDelay, n) == retryDelay * (2 ^ (n - 1))

\* `const waitTime = retryDelay * attempt`
WaitTime(retryDelay, n) == retryDelay * n

\* The validation block of the final version: the warning is attached and a
\* missing author is replaced.
InList(xs, x) == \E k \in 1..Len(xs) : xs[k] = x

\* A validation block that leaves a missing author as it is.
SubstituteAuthor_Never(b, validation, substitute) == b

SubstituteAuthor(b, validation, substitute) ==
    IF substitute /\ InList(validation.missingFields, "author")
    THEN Put(b, "author", Str(UnknownAuthor))
    ELSE b

\* A validation block that attaches the warning to every record.
WarnAndSubstitute_Always(b, validation, substitute) ==
    SubstituteAuthor(
        Put(b, "validationWarning", [missingFields |-> validation.missingFields]),
        validation, substitute)

WarnAndSubstitute(b, validation, substitute) ==
    IF validation.isValid THEN b
    ELSE SubstituteAuthor(
             Put(b, "validationWarning", [missingFields |-> validation.missingFields]),
             validation, substitute)

AttachValidation(b, substituteAuthor) ==
    WarnAndSubstitute(b, validateBookData(b), substituteAuthor)

Returned(b) == [kind |-> "record", value |-> b]
Threw(e) == [kind |-> "error", error |-> e]
NoOutcome == [kind |-> "none"]

\* Fix, normalize, validate: the tail of scrapeThaliaSafe.
ValidateStep(b, opts, version) ==
    IF opts.validateData THEN Returned(AttachValidation(b, version = "final"))
    ELSE Returned(b)

NormalizeStep(b, opts, version) ==
    IF opts.normalizeData
    THEN IF normalizeBookDataThrows(b) THEN Threw("TypeError")
         ELSE ValidateStep(normalizeBookData(b), opts, version)
    ELSE ValidateStep(b, opts, version)

PostProcess(b, opts, version) ==
    IF opts.fixData
    THEN IF fixBookDataThrows(b) THEN Threw("TypeError")
         ELSE NormalizeStep(fixBookData(b), opts, version)
    ELSE NormalizeStep(b, opts, version)

\* A tail without any fallback, as in the server implementation.
ChosenRecord_NoFallback(version, u, data, partial, err) == data

\* A tail in which a remembered error takes the degraded record even though
\* a later attempt returned a record.
ChosenRecord_ErrorFirst(version, u, data, partial, err) ==
    IF version = "final" /\ err # "none" THEN DegradedRecord(u) ELSE data

\* The record the tail of scrapeThaliaSafe works on, Null when it throws:
\* the final version falls back to the partial record and then to the
\* degraded record, the server implementation has no fallback.
ChosenRecord(version, u, data, partial, err) ==
    IF version = "final"
    THEN IF data # Null THEN data
         ELSE IF partial # Null THEN partial
         ELSE IF err # "none" THEN DegradedRecord(u)
         ELSE Null
    ELSE data

FinishWith(chosen, opts, version) ==
    IF chosen = Null THEN Threw("ScrapeFailed") ELSE PostProcess(chosen, opts, version)

\* What scrapeThaliaSafe does once the retry loop is left.
AfterLoop(version, u, opts, data, partial, err) ==
    FinishWith(ChosenRecord(version, u, data, partial, err), opts, version)

\* ------------------------------------------------------------------ state

VARIABLES
    req,          \* the request: entry point, url, options
    pc,           \* where the request stands
    attempt,      \* loop counter of scrapeThaliaSafe
    lastError,    \* "none", or the error of the last failed attempt
    bookData,     \* Null, or the record of the attempt that returned
    partialData,  \* Null, or the retained partial record
    pending,      \* how the running scrapeThalia call will settle
    session,      \* browser of the running scrapeThalia call, 0 when none
    open,         \* browsers launched and not yet closed
    launches,     \* per browser launched, the attempt that launched it
    launchCalls,  \* number of puppeteer.launch calls issued
    navigations,  \* number of page.goto calls issued
    navResult,    \* outcome of the last page.goto
    waits,        \* the backoff delays waited, in order
    outcomes,     \* per attempt finished, "record" or "error"
    result,       \* what the entry function gave its caller
    response,     \* the HTTP response, when the entry point is a handler
    input,        \* argument of the pure function under test
    output,       \* its results, one per call
    calls,        \* number of calls made
    procs,        \* concurrent requests: per request its version, debug flag, position, browser
    files         \* per file written, the requests that wrote it

ctlVars == <<req, pc, attempt, lastError, bookData, partialData, pending, session, open,
             launches, launchCalls, navigations, navResult, waits, outcomes, result, response>>
funVars == <<input, output, calls>>
conVars == <<procs, files>>
envVars == <<zone>>
vars == <<req, pc, attempt, lastError, bookData, partialData, pending, session, open,
          launches, launchCalls, navigations, navResult, waits, outcomes, result, response,
          input, output, calls, procs, files, zone>>

\* No concurrent requests are modelled.
NoConcurrency == procs = <<>> /\ files = <<>>

\* The host runs on UTC.
UtcHost == zone = 0

\* ----------------------------------------------------------------- inputs

MaxRetries == 4

DefaultRetryDelayFinal == 5000
DefaultRetryDelayServer == 2000
HandlerMaxRetries == 3
RetryDelays == {DefaultRetryDelayServer, DefaultRetryDelayFinal}

HostThalia == <<"w", "w", "w", ".", "t", "h", "a", "l", "i", "a", ".", "d", "e">>
HostBare == <<"t", "h", "a", "l", "i", "a", ".", "d", "e">>
HostAmazon == <<"w", "w", "w", ".", "a", "m", "a", "z", "o", "n", ".", "d", "e">>
PathSlug ==
    <<"/", "s", "h", "o", "p", "/", "h", "o", "m", "e", "/", "a", "r", "t", "i", "k", "e", "l",
    "d", "e", "t", "a", "i", "l", "s", "/", "d", "i", "e", "-", "m", "i", "t", "t", "e", "r",
    "n", "a", "c", "h", "t", "s", "b", "i", "b", "l", "i", "o", "t", "h", "e", "k">>
PathArticleId ==
    <<"/", "s", "h", "o", "p", "/", "h", "o", "m", "e", "/", "a", "r", "t", "i", "k", "e", "l",
    "d", "e", "t", "a", "i", "l", "s", "/", "A", "1", "0", "6", "0", "6", "9", "1", "1", "4",
    "6">>
PathCamel ==
    <<"/", "a", "r", "t", "i", "k", "e", "l", "d", "e", "t", "a", "i", "l", "s", "/", "D", "a",
    "s", "B", "u", "c", "h">>
PathTrailing ==
    <<"/", "a", "r", "t", "i", "k", "e", "l", "d", "e", "t", "a", "i", "l", "s", "/">>
PathHome == <<"/", "s", "h", "o", "p", "/", "h", "o", "m", "e", "/">>
PathNoSlash == <<"/", "a", "r", "t", "i", "k", "e", "l", "d", "e", "t", "a", "i", "l", "s">>

ValidUrls ==
    { ParsedUrl(HostThalia, PathSlug), ParsedUrl(HostThalia, PathArticleId),
      ParsedUrl(HostBare, PathCamel), ParsedUrl(HostThalia, PathTrailing) }

InvalidUrls ==
    { UnparsableUrl, MissingUrl, ParsedUrl(HostThalia, PathHome),
      ParsedUrl(HostThalia, PathNoSlash), ParsedUrl(HostAmazon, PathSlug) }

Urls == ValidUrls \cup InvalidUrls

\* Entry points.  version: "final" is the final version of the Thalia scraper,
\* "server" its server implementation, "simple" the combined Amazon/Thalia server.
Entry(h, f, v) == [handler |-> h, fn |-> f, version |-> v]

DirectSafe == {Entry("none", "safe", "final"), Entry("none", "safe", "server")}
DirectScrape == {Entry("none", "scrape", "final"), Entry("none", "scrape", "server"),
                 Entry("none", "scrape", "simple")}
Handlers == {Entry("post", "safe", "final"), Entry("post", "safe", "server"),
             Entry("post", "scrape", "simple")}

Options(m, d, f, n, v) ==
    [maxRetries |-> m, retryDelay |-> d, fixData |-> f, normalizeData |-> n, validateData |-> v]

DefaultDelay(version) ==
    IF version = "final" THEN DefaultRetryDelayFinal ELSE DefaultRetryDelayServer

\* The options object the POST handler passes.
HandlerOptions(version) == Options(HandlerMaxRetries, DefaultDelay(version), TRUE, TRUE, TRUE)

Requests ==
    { [entry |-> e, url |-> u, opts |-> Options(m, d, f, n, v)] :
        e \in DirectSafe, u \in Urls, m \in 0..MaxRetries, d \in RetryDelays,
        f \in BOOLEAN, n \in BOOLEAN, v \in BOOLEAN }
    \cup { [entry |-> e, url |-> u, opts |-> HandlerOptions(e.version)] :
        e \in DirectScrape \cup Handlers, u \in Urls }

\* Pages the renderer may deliver.
PageFull ==
    [ BlankPage EXCEPT
        !.h1 = <<"T", "o", "d", " ", "|", " ", "T", "e", "i", "l">>,
        !.authorData = Obj([name |-> Str(<<"P", "i", "a", " ", "M", "o">>), source |-> Str(<<"l", "i", "n", "k">>)]),
        !.priceDisplay = Str(<<"9", ",", "9", "9">>),
        !.coverSrc = Str(<<"/", "c", "o", "v", "e", "r", "/", "a", ".", "j", "p", "g">>),
        !.details = List(<< [h3 |-> TRUE, text |-> <<"S", "e", "i", "t", "e", "n", "z", "a", "h", "l">>],
                            [h3 |-> FALSE, text |-> <<"3", "2", "0", " ", "S", "e", "i", "t", "e", "n">>],
                            [h3 |-> TRUE, text |-> <<"S", "p", "r", "a", "c", "h", "e">>],
                            [h3 |-> FALSE, text |-> <<"E", "n", "g", "l", "i", "s", "c", "h">>] >>) ]

PageNumericPages ==
    [ BlankPage EXCEPT
        !.structuredData = Obj([name |-> Str(<<"T", "o", "d">>), author |-> Str(<<"P", "i", "a", " ", "M", "o">>),
                                numberOfPages |-> Num(320)]) ]

Pages == {BlankPage, PageFull, PageNumericPages}

NavOutcomes == {"ok", "timeout", "error"}

\* ---------------------------------------------------------------- actions

Version == req.entry.version

InitRequest ==
    /\ req \in Requests
    /\ pc = (IF req.entry.handler = "post" THEN "handler"
             ELSE IF req.entry.fn = "safe" THEN "safe" ELSE "scrape")
    /\ attempt = 0
    /\ lastError = "none"
    /\ bookData = Null
    /\ partialData = Null
    /\ pending = NoOutcome
    /\ session = 0
    /\ open = {}
    /\ launches = <<>>
    /\ launchCalls = 0
    /\ navigations = 0
    /\ navResult = "none"
    /\ waits = <<>>
    /\ outcomes = <<>>
    /\ result = NoOutcome
    /\ response = [status |-> 0]

Init ==
    /\ InitRequest
    /\ input = Null
    /\ output = <<>>
    /\ calls = 0
    /\ NoConcurrency
    /\ UtcHost

\* Where control goes when the entry function has settled.
AfterEntry == IF req.entry.handler = "post" THEN "respond" ELSE "done"

\* POST /api/scrape-thalia up to the call of the scraper.
HandlerReceive ==
    /\ pc = "handler"
    /\ IF req.url.kind = "missing"
       THEN /\ response' = IF Version = "simple"
                           THEN [status |-> 400, success |-> FALSE, error |-> "No URL provided"]
                           ELSE [status |-> 400, error |-> "URL is required"]
            /\ pc' = "done"
       ELSE IF Version = "simple" /\ ~isValidThaliaUrl(req.url)
            THEN /\ response' = [status |-> 400, success |-> FALSE, error |-> "Invalid Thalia URL"]
                 /\ pc' = "done"
            ELSE /\ response' = response
                 /\ pc' = IF req.entry.fn = "safe" THEN "safe" ELSE "scrape"
    /\ UNCHANGED <<req, attempt, lastError, bookData, partialData, pending, session, open,
                   launches, launchCalls, navigations, navResult, waits, outcomes, result>>
    /\ UNCHANGED <<funVars, conVars, envVars>>

\* scrapeThaliaSafe from its entry to the first call of scrapeThalia.
SafeEnter ==
    /\ pc = "safe"
    /\ IF ~isValidThaliaUrl(req.url)
       THEN /\ result' = Threw("InvalidUrl")
            /\ pc' = AfterEntry
            /\ attempt' = attempt
       ELSE IF req.opts.maxRetries >= 1
            THEN /\ attempt' = 1
                 /\ pc' = "scrape"
                 /\ result' = result
            ELSE /\ attempt' = 1
                 /\ result' = AfterLoop(Version, req.url, req.opts, bookData, partialData,
                                        lastError)
                 /\ pc' = AfterEntry
    /\ UNCHANGED <<req, lastError, bookData, partialData, pending, session, open, launches,
                   launchCalls, navigations, navResult, waits, outcomes, response>>
    /\ UNCHANGED <<funVars, conVars, envVars>>

\* Whether scrapeThalia tests the URL before it launches the browser.
ScrapeValidates(version) == version \in {"final", "server"}

\* scrapeThalia from its entry to the call of puppeteer.launch.
ScrapeEnter ==
    /\ pc = "scrape"
    /\ IF ScrapeValidates(Version) /\ ~isValidThaliaUrl(req.url)
       THEN /\ pending' = Threw("InvalidUrl")
            /\ pc' = "settled"
            /\ launchCalls' = launchCalls
       ELSE /\ pending' = NoOutcome
            /\ pc' = "launch"
            /\ launchCalls' = launchCalls + 1
    /\ UNCHANGED <<req, attempt, lastError, bookData, partialData, session, open, launches,
                   navigations, navResult, waits, outcomes, result, response>>
    /\ UNCHANGED <<funVars, conVars, envVars>>

\* puppeteer.launch settles: a new browser, or an error thrown outside the try.
Launch ==
    /\ pc = "launch"
    /\ \E ok \in BOOLEAN :
        IF ok
        THEN /\ session' = Len(launches) + 1
             /\ open' = open \cup {Len(launches) + 1}
             /\ launches' = Append(launches, attempt)
             /\ pending' = pending
             /\ pc' = "navigate"
        ELSE /\ pending' = Threw("LaunchFailed")
             /\ pc' = "settled"
             /\ UNCHANGED <<session, open, launches>>
    /\ UNCHANGED <<req, attempt, lastError, bookData, partialData, launchCalls, navigations,
                   navResult, waits, outcomes, result, response>>
    /\ UNCHANGED <<funVars, conVars, envVars>>

\* Whether a failed page.goto is caught and the attempt goes on.
NavigationTolerant(version) == version = "final"

\* newPage and page set-up, then page.goto.
Navigate ==
    /\ pc = "navigate"
    /\ \E setupOk \in BOOLEAN, nav \in NavOutcomes :
        IF ~setupOk
        THEN /\ pending' = Threw("PageError")
             /\ pc' = "close"
             /\ UNCHANGED <<navigations, navResult>>
        ELSE /\ navigations' = navigations + 1
             /\ navResult' = nav
             /\ IF nav = "ok" \/ NavigationTolerant(Version)
                THEN pending' = pending /\ pc' = "extract"
                ELSE /\ pending' = Threw(IF nav = "timeout" THEN "NavigationTimeout"
                                         ELSE "NavigationError")
                     /\ pc' = "close"
    /\ UNCHANGED <<req, attempt, lastError, bookData, partialData, session, open, launches,
                   launchCalls, waits, outcomes, result, response>>
    /\ UNCHANGED <<funVars, conVars, envVars>>

\* Whether a failure while parsing gives the empty shell instead of an error.
ParseTolerant(version) == version = "final"

\* From the waits after navigation to the return statement: page.content and
\* the in-page probes, then the Cheerio extraction.
Extract ==
    /\ pc = "extract"
    /\ \E pageOk \in BOOLEAN, cheerioFails \in BOOLEAN, page \in Pages :
        /\ pending' =
             IF ~pageOk THEN Threw("PageError")
             ELSE IF Version = "simple" THEN Returned(SimpleRecord(page))
             ELSE IF ParseThrows(page, cheerioFails)
                  THEN (IF ParseTolerant(Version) THEN Returned(EmptyShell)
                        ELSE Threw("ExtractionError"))
                  ELSE Returned(ParsedRecord(page))
        /\ pc' = "close"
    /\ UNCHANGED <<req, attempt, lastError, bookData, partialData, session, open, launches,
                   launchCalls, navigations, navResult, waits, outcomes, result, response>>
    /\ UNCHANGED <<funVars, conVars, envVars>>

\* A finally block that closes the browser only when the attempt has a record.
CloseBrowser_OnSuccessOnly(o, s, p) == IF p.kind = "record" THEN o \ {s} ELSE o

\* finally { await browser.close() }
CloseBrowser(o, s, p) == o \ {s}

Close ==
    /\ pc = "close"
    /\ open' = CloseBrowser(open, session, pending)
    /\ session' = 0
    /\ pc' = "settled"
    /\ UNCHANGED <<req, attempt, lastError, bookData, partialData, pending, launches,
                   launchCalls, navigations, navResult, waits, outcomes, result, response>>
    /\ UNCHANGED <<funVars, conVars, envVars>>

\* scrapeThalia was called by the entry point itself: its outcome is the result.
ScrapeSettled ==
    /\ pc = "settled"
    /\ req.entry.fn = "scrape"
    /\ result' = pending
    /\ pending' = NoOutcome
    /\ pc' = AfterEntry
    /\ UNCHANGED <<req, attempt, lastError, bookData, partialData, session, open, launches,
                   launchCalls, navigations, navResult, waits, outcomes, response>>
    /\ UNCHANGED <<funVars, conVars, envVars>>

\* The loop body after `bookData = await scrapeThalia(...)`: keep the record
\* and leave the loop; then the tail of scrapeThaliaSafe.
AttemptReturned ==
    /\ pc = "settled"
    /\ req.entry.fn = "safe"
    /\ pending.kind = "record"
    /\ bookData' = pending.value
    /\ partialData' = IF Version = "final" THEN pending.value ELSE partialData
    /\ outcomes' = Append(outcomes, "record")
    /\ result' = AfterLoop(Version, req.url, req.opts, pending.value,
                           IF Version = "final" THEN pending.value ELSE partialData,
                           lastError)
    /\ pending' = NoOutcome
    /\ pc' = AfterEntry
    /\ UNCHANGED <<req, attempt, lastError, session, open, launches, launchCalls,
                   navigations, navResult, waits, response>>
    /\ UNCHANGED <<funVars, conVars, envVars>>

\* `if (attempt < maxRetries)`
WaitsAfter(n, maxRetries) == n < maxRetries

\* The catch block of the loop: remember the error, then wait and go round
\* again, or leave the loop and run the tail of scrapeThaliaSafe.
AttemptThrew ==
    /\ pc = "settled"
    /\ req.entry.fn = "safe"
    /\ pending.kind = "error"
    /\ lastError' = pending.error
    /\ outcomes' = Append(outcomes, "error")
    /\ pending' = NoOutcome
    /\ IF WaitsAfter(attempt, req.opts.maxRetries)
       THEN /\ waits' = Append(waits, WaitTime(req.opts.retryDelay, attempt))
            /\ pc' = "backoff"
            /\ result' = result
       ELSE /\ waits' = waits
            /\ result' = AfterLoop(Version, req.url, req.opts, bookData, partialData,
                                   pending.error)
            /\ pc' = AfterEntry
    /\ UNCHANGED <<req, attempt, bookData, partialData, session, open, launches,
                   launchCalls, navigations, navResult, response>>
    /\ UNCHANGED <<funVars, conVars, envVars>>

\* A loop whose counter is not incremented.
BackoffElapsed_SameAttempt ==
    /\ pc = "backoff"
    /\ attempt' = attempt
    /\ pc' = "scrape"
    /\ UNCHANGED <<req, lastError, bookData, partialData, pending, session, open, launches,
                   launchCalls, navigations, navResult, waits, outcomes, result, response>>
    /\ UNCHANGED <<funVars, conVars, envVars>>

\* The timer of the backoff fires: next iteration of the loop.
BackoffElapsed ==
    /\ pc = "backoff"
    /\ attempt' = attempt + 1
    /\ pc' = IF attempt + 1 <= req.opts.maxRetries THEN "scrape" ELSE "done"
    /\ UNCHANGED <<req, lastError, bookData, partialData, pending, session, open, launches,
                   launchCalls, navigations, navResult, waits, outcomes, result, response>>
    /\ UNCHANGED <<funVars, conVars, envVars>>

\* The handler answers: success with the record, or a server error.
HandlerRespond ==
    /\ pc = "respond"
    /\ response' = IF result.kind = "record"
                   THEN [status |-> 200, success |-> TRUE, bookData |-> result.value]
                   ELSE IF Version = "simple"
                   THEN [status |-> 500, success |-> FALSE, error |-> result.error]
                   ELSE [status |-> 500, success |-> FALSE, error |-> result.error,
                         errorCode |-> "SCRAPER_ERROR"]
    /\ pc' = "done"
    /\ UNCHANGED <<req, attempt, lastError, bookData, partialData, pending, session, open,
                   launches, launchCalls, navigations, navResult, waits, outcomes, result>>
    /\ UNCHANGED <<funVars, conVars, envVars>>

Next ==
    \/ HandlerReceive
    \/ SafeEnter
    \/ ScrapeEnter
    \/ Launch
    \/ Navigate
    \/ Extract
    \/ Close
    \/ ScrapeSettled
    \/ AttemptReturned
    \/ AttemptThrew
    \/ BackoffElapsed
    \/ HandlerRespond

Spec == Init /\ [][Next]_vars


\* ------------------------------------------------- properties of the request

\* scrapeThaliaSafe has settled (for a handler: and the response is sent).
SafeDone == pc = "done" /\ req.entry.fn = "safe" /\ result # NoOutcome

\* Every attempt of the retry loop threw.
AllAttemptsFailed ==
    /\ req.opts.maxRetries >= 1
    /\ Len(outcomes) = req.opts.maxRetries
    /\ \A k \in 1..Len(outcomes) : outcomes[k] = "error"

\* The final version answered with the degraded record.
Degraded == SafeDone /\ Version = "final" /\ AllAttemptsFailed /\ result.kind = "record"

\* C1: for a URL the classifier accepts and maxRetries >= 1, scrapeThaliaSafe
\* returns a record and does not throw, whatever the outcomes of its attempts.
C1_ValidUrlYieldsRecord ==
    (SafeDone /\ isValidThaliaUrl(req.url) /\ req.opts.maxRetries >= 1)
        => result.kind = "record"

\* C2: for a URL the classifier rejects, no entry point ever launches a
\* browser or fetches a page, and the request ends with a rejection.
C2_InvalidUrlNeverRenders ==
    ~isValidThaliaUrl(req.url) =>
        /\ launchCalls = 0
        /\ navigations = 0
        /\ pc = "done" => (result = Threw("InvalidUrl") \/ response.status = 400)

\* C3: a browser is open only while the attempt that launched it is between
\* its launch and its finally block; no browser is open when an attempt has
\* settled, during a backoff wait or after the entry point has finished; and
\* every attempt launches at most one browser, of its own.
C3_SessionsReleased ==
    /\ pc \notin {"navigate", "extract", "close"} => open = {}
    /\ pc \in {"navigate", "extract", "close"} =>
           /\ open = {session}
           /\ session = Len(launches)
           /\ launches[session] = attempt
    /\ \A i, j \in 1..Len(launches) : i < j => launches[i] < launches[j]

\* An attempt launched a browser, its navigation timed out, the attempt threw
\* and the controller is waiting before the next attempt.
C3_Witness ==
    /\ pc = "backoff"
    /\ Len(launches) = 2
    /\ navResult = "timeout"
    /\ open = {}

C5_LinearBackoff ==
    /\ \A n \in 1..Len(waits) : waits[n] = req.opts.retryDelay * n
    /\ Len(waits) = Cardinality({n \in 1..Len(outcomes) :
                                    outcomes[n] = "error" /\ n < req.opts.maxRetries})
    /\ pc = "backoff" => (Len(waits) = attempt /\ attempt < req.opts.maxRetries)
    /\ (SafeDone /\ AllAttemptsFailed) => Len(waits) = req.opts.maxRetries - 1

\* Four attempts failed: three waits, the third three times the base delay.
C5_Witness ==
    /\ SafeDone
    /\ AllAttemptsFailed
    /\ req.opts.maxRetries = 4
    /\ req.opts.retryDelay = DefaultRetryDelayFinal
    /\ waits = <<5000, 10000, 15000>>

\* The URL of the example: .../artikeldetails/die-mitternachtsbibliothek
SlugUrl == ParsedUrl(HostThalia, PathSlug)

C7_OtherFieldsEmpty ==
    Degraded =>
        \A f \in DOMAIN result.value \ {"title", "coverUrl", "description"} :
            result.value[f] = Str(<<>>)

\* C7 as amended: the degraded record has the title, the placeholder cover,
\* the sentinel description, language "Deutsch" with code "de", and as ean the
\* last path segment when that starts with "A"; isbn and publisher are empty,
\* and author is empty unless validation replaces it by "Unknown Author".
C7_DegradedFields ==
    Degraded =>
        /\ result.value.coverUrl = Str(PlaceholderCover)
        /\ result.value.description = Str(ExtractionFailedText)
        /\ result.value.language = Str(Deutsch)
        /\ result.value.languageCode = Str(De)
        /\ result.value.isbn = Str(<<>>)
        /\ result.value.publisher = Str(<<>>)
        /\ result.value.ean = (IF req.url = ParsedUrl(HostThalia, PathArticleId)
                               THEN Str(<<"A", "1", "0", "6", "0", "6", "9", "1", "1", "4", "6">>) ELSE Str(<<>>))
        /\ result.value.author = (IF req.opts.validateData THEN Str(UnknownAuthor)
                                  ELSE Str(<<>>))
        /\ DOMAIN result.value \subseteq
             {"title", "author", "description", "coverUrl", "language", "languageCode",
              "isbn", "ean", "publisher", "eanClean", "validationWarning"}

\* All attempts failed for a URL that ends in an article number.
C7_Witness ==
    /\ Degraded
    /\ req.url = ParsedUrl(HostThalia, PathArticleId)
    /\ result.value.ean = Str(<<"A", "1", "0", "6", "0", "6", "9", "1", "1", "4", "6">>)
    /\ result.value.language = Str(Deutsch)

\* --------------------------------------------- the pure functions on their own
\*
\* Each of the following specifications calls one function on inputs drawn
\* from a bounded set; no request is running meanwhile.

NoRequest ==
    /\ req = [entry |-> Entry("none", "none", "none"), url |-> MissingUrl,
              opts |-> HandlerOptions("final")]
    /\ pc = "idle"
    /\ attempt = 0
    /\ lastError = "none"
    /\ bookData = Null
    /\ partialData = Null
    /\ pending = NoOutcome
    /\ session = 0
    /\ open = {}
    /\ launches = <<>>
    /\ launchCalls = 0
    /\ navigations = 0
    /\ navResult = "none"
    /\ waits = <<>>
    /\ outcomes = <<>>
    /\ result = NoOutcome
    /\ response = [status |-> 0]

\* ---- validateBookData

TextValues == {Undefined, Null, Str(<<>>), Str(<<" ">>), Str(<<" ", " ", "T", "o", "d", " ">>), Str(<<"P", "i", "a", " ", "M", "o">>), Num(7)}

ValidateInputs ==
    [title : TextValues, author : TextValues, description : {Str(<<>>), Str(<<"K", "u", "r", "z", ".">>)}]

InitValidate ==
    /\ NoRequest
    /\ NoConcurrency
    /\ UtcHost
    /\ input \in ValidateInputs
    /\ output = <<>>
    /\ calls = 0

\* validateBookData(input): the function reads the record and assigns to
\* none of its fields.
ValidateCall ==
    /\ calls < 2
    /\ output' = Append(output, validateBookData(input))
    /\ calls' = calls + 1
    /\ input' = input
    /\ UNCHANGED <<ctlVars, conVars, envVars>>

SpecValidate == InitValidate /\ [][ValidateCall]_vars

\* A required field is absent, or empty after trimming.
AbsentOrBlank(r, f) ==
    \/ f \notin DOMAIN r
    \/ r[f] \in {Undefined, Null}
    \/ IsStr(r[f]) /\ Trim(r[f].str) = <<>>

ValidationsAgree ==
    \A k \in 1..Len(output) :
        /\ output[k] = output[1]
        /\ output[k].isValid = (output[k].missingFields = <<>>)
        /\ output[k].missingFields
             = SelectSeq(<<"title", "author">>, LAMBDA f : AbsentOrBlank(input, f))

NormalizeInputs ==
    [ price : {Str(<<>>), Str(<<"9", ",", "9", "9">>), Str(<<"9", ",", "9", "9", " ", "€">>), Str(<<"a", "b", " ", "1", "2", ".", "5", "0", " ", "E", "U", "R">>), Str(<<"g", "r", "a", "t", "i", "s">>)},
      publicationDate : {Undefined, Str(<<"1", ".", "2", ".", "2", "0", "2", "0">>), Str(<<"1", "5", ".", "0", "3", ".", "2", "0", "2", "1">>), Str(<<"2", "0", "2", "0", "-", "0", "5", "-", "1", "7">>),
                         Str(<<"b", "a", "l", "d">>), Num(2020)},
      pageCount : {Str(<<>>), Str(<<"3", "2", "0", " ", "S", "e", "i", "t", "e", "n">>), Str(<<"k", "e", "i", "n", "e">>), Num(320)},
      isbn : {Str(<<>>), Str(<<"9", "7", "8", "-", "3", "-", "1", "6", "-", "1", "4", "8", "4", "1", "0", "-", "X">>)},
      ean : {Undefined, Str(<<"9", "7", "8", " ", "3", "1", "6", "1", "4", "8", "4", "1", "0", "0">>)},
      language : {Str(<<>>), Str(<<"D", "e", "u", "t", "s", "c", "h">>), Str(<<"E", "n", "g", "l", "i", "s", "c", "h", " ", "(", "U", "K", ")">>), Str(<<"L", "a", "t", "e", "i", "n">>)} ]

InitNormalize ==
    /\ NoRequest
    /\ NoConcurrency
    /\ UtcHost
    /\ input \in NormalizeInputs
    /\ output = <<>>
    /\ calls = 0

\* How a call of normalizeBookData settles.
NormalizeOutcome(r) ==
    IF normalizeBookDataThrows(r) THEN Threw("TypeError") ELSE Returned(normalizeBookData(r))

\* normalizeBookData(input)
NormalizeCall ==
    /\ calls = 0
    /\ output' = <<NormalizeOutcome(input)>>
    /\ calls' = 1
    /\ input' = input
    /\ UNCHANGED <<ctlVars, conVars, envVars>>

\* normalizeBookData applied to the record the first call returned.
NormalizeAgain ==
    /\ calls = 1
    /\ output[1].kind = "record"
    /\ output' = Append(output, NormalizeOutcome(output[1].value))
    /\ calls' = 2
    /\ input' = input
    /\ UNCHANGED <<ctlVars, conVars, envVars>>

SpecNormalize == InitNormalize /\ [][NormalizeCall \/ NormalizeAgain]_vars

\* C8: normalizeBookData applied to a record it returned returns that record
\* again, field by field.
C8_NormalizeIdempotent == Len(output) = 2 => output[2] = output[1]

\* A price without currency sign, a German date and a page count were
\* normalized, and the result was normalized again.
C8_Witness ==
    /\ calls = 2
    /\ input.price = Str(<<"9", ",", "9", "9">>)
    /\ input.publicationDate = Str(<<"1", ".", "2", ".", "2", "0", "2", "0">>)
    /\ input.pageCount = Str(<<"3", "2", "0", " ", "S", "e", "i", "t", "e", "n">>)
    /\ output[2].kind = "record"
    /\ output[2].value.price = Str(<<"9", ",", "9", "9", " ", "€">>)
    /\ output[2].value.publicationDateISO = Str(<<"2", "0", "2", "0", "-", "0", "2", "-", "0", "1">>)
    /\ output[2].value.pageCountValue = Num(320)

\* ---- extractBookData

AuthorDataValues ==
    { Null,
      Obj([name |-> Str(<<"P", "i", "a", " ", "M", "o">>), source |-> Str(<<"l", "i", "n", "k">>)]),
      Obj([name |-> Str(<<>>), source |-> Str(<<>>)]) }

CssAuthorValues ==
    { << <<>>, <<>>, <<>>, <<>>, <<>> >>,
      << <<>>, <<" ">>, <<" ", "A", "n", "n", " ", "L", "e", "e", " ">>, <<"B", "o", "b", " ", "R", "a", "y">>, <<>> >> }

DataAttributeValues ==
    { Null,
      Obj(("data-autor" :> Str(<<"D", "a", "n", " ", "P", "o", "e">>)) @@ ("data-titel" :> Str(<<"D", "a", "t", "e", "n", "t", "i", "t", "e", "l">>))
          @@ ("data-isbn" :> Str(<<"1", "1", "1">>)) @@ ("data-ean" :> Str(<<"2", "2", "2">>))),
      Obj(("data-ean" :> Str(<<"2", "2", "2">>))) }

StructuredDataValues ==
    { Null,
      Obj([ name |-> Str(<<"S", "c", "h", "e", "m", "a", "t", "i", "t", "e", "l">>), author |-> Str(<<"S", "a", "m", " ", "R", "o", "e">>),
            publisher |-> Obj([name |-> Str(<<"H", "a", "u", "s">>)]), datePublished |-> Str(<<"2", "0", "2", "0", "-", "0", "5", "-", "1", "7">>),
            inLanguage |-> Str(<<"d", "e">>), isbn |-> Str(<<"3", "3", "3">>), numberOfPages |-> Str(<<"2", "0", "0">>),
            description |-> Str(<<"A", "u", "t", "o", "r", ":", " ", "E", "v", "a", " ", "K", "l", "e", "i", "n">>) ]),
      Obj([ author |-> Obj([name |-> Str(<<"S", "a", "m", " ", "R", "o", "e">>)]), publisher |-> Str(<<"H", "a", "u", "s">>) ]),
      Obj([ description |-> Str(<<"A", "u", "t", "o", "r", ":", " ", "E", "v", "a", " ", "K", "l", "e", "i", "n">>) ]) }

DescriptionValues ==
    { Undefined,
      List(<< <<" ", "E", "i", "n", " ", "R", "o", "m", "a", "n", " ">>, <<" ">>, <<"v", "o", "n", " ", "M", "a", "x", " ", "M", "u", "s", "t", "e", "r", "m", "a", "n", "n">> >>),
      List(<< <<"K", "u", "r", "z", ".">> >>) }

DetailsValues ==
    { Undefined,
      List(<< [h3 |-> TRUE, text |-> <<"V", "e", "r", "l", "a", "g">>], [h3 |-> FALSE, text |-> <<" ", "d", "t", "v", " ">>],
              [h3 |-> TRUE, text |-> <<"E", "r", "s", "c", "h", "e", "i", "n", "u", "n", "g", "s", "d", "a", "t", "u", "m">>], [h3 |-> FALSE, text |-> <<"1", ".", "2", ".", "2", "0", "2", "0">>],
              [h3 |-> TRUE, text |-> <<"S", "p", "r", "a", "c", "h", "e">>], [h3 |-> FALSE, text |-> <<"E", "n", "g", "l", "i", "s", "c", "h">>],
              [h3 |-> TRUE, text |-> <<"S", "e", "i", "t", "e", "n", "z", "a", "h", "l">>], [h3 |-> FALSE, text |-> <<"3", "2", "0">>],
              [h3 |-> TRUE, text |-> <<"I", "S", "B", "N">>], [h3 |-> FALSE, text |-> <<"4", "4", "4">>] >>),
      List(<< [h3 |-> FALSE, text |-> <<"o", "h", "n", "e", " ", "E", "t", "i", "k", "e", "t", "t">>],
              [h3 |-> TRUE, text |-> <<"V", "e", "r", "l", "a", "g">>], [h3 |-> FALSE, text |-> <<" ">>] >>) }

HeadingValues == { <<>>, <<"T", "o", "d", " ", "|", " ", "T", "e", "i", "l">>, <<" ", "T", "o", "d", " ">> }

ExtractInputs ==
    { [ BlankPage EXCEPT !.h1 = h, !.authorData = a, !.cssAuthors = c, !.dataAttributes = d,
                         !.structuredData = s, !.description = t, !.details = e ] :
        h \in HeadingValues, a \in AuthorDataValues, c \in CssAuthorValues,
        d \in DataAttributeValues, s \in StructuredDataValues, t \in DescriptionValues,
        e \in DetailsValues }

InitExtract ==
    /\ NoRequest
    /\ NoConcurrency
    /\ UtcHost
    /\ input \in ExtractInputs
    /\ output = <<>>
    /\ calls = 0

\* extractBookData on the queries of the page.
ExtractCall ==
    /\ calls = 0
    /\ ~extractBookDataThrows(input)
    /\ output' = <<extractBookData(input)>>
    /\ calls' = 1
    /\ input' = input
    /\ UNCHANGED <<ctlVars, conVars, envVars>>

SpecExtract == InitExtract /\ [][ExtractCall]_vars

\* The first non-empty candidate of a precedence list, '' when all are empty.
RECURSIVE FirstNonEmpty(_)
FirstNonEmpty(candidates) ==
    IF candidates = <<>> THEN Str(<<>>)
    ELSE IF Truthy(Head(candidates)) THEN Head(candidates)
    ELSE FirstNonEmpty(Tail(candidates))

\* What each source alone gives for a field.
FromHeading(page, f) == Get(ExtractTitle(page) @@ InitialBookData, f)
FromComputedAuthor(page) ==
    IF page.authorData = Null THEN Undefined ELSE Get(page.authorData.obj, "name")
FromCssCascade(page) == Str(FirstNonBlank(page.cssAuthors, 1))
FromSection(page, f) ==
    Get(ExtractDetails(page) @@ ExtractDescription(page) @@ InitialBookData, f)
FromDataAttributes(page, f) == Get(UseDataAttributes(InitialBookData, page), f)
FromStructuredData(page, f) == Get(UseStructuredData(InitialBookData, page), f)
FromDescriptionPattern(page) ==
    Str(extractAuthorFromText(
            FirstNonEmpty(<<FromSection(page, "description"),
                            FromStructuredData(page, "description")>>).str))

\* The precedence list of a field.
Precedence(page, f) ==
    CASE f = "title" ->
           <<FromHeading(page, f), FromDataAttributes(page, f), FromStructuredData(page, f)>>
      [] f = "author" ->
           <<FromComputedAuthor(page), FromCssCascade(page), FromDataAttributes(page, f),
             FromStructuredData(page, f), FromDescriptionPattern(page)>>
      [] f \in {"isbn", "ean"} ->
           <<FromSection(page, f), FromDataAttributes(page, f), FromStructuredData(page, f)>>
      [] OTHER ->
           <<FromSection(page, f), FromStructuredData(page, f)>>

PrecedenceFields ==
    {"title", "author", "description", "isbn", "ean", "publisher", "publicationDate",
     "language", "pageCount"}

\* C9: every field of the precedence table holds the first non-empty
\* candidate of its precedence list; for author the list is computed author,
\* selector cascade, data attribute, structured data, pattern over the
\* description.
C9_PrecedenceOrder ==
    calls = 1 =>
        \A f \in PrecedenceFields : output[1][f] = FirstNonEmpty(Precedence(input, f))

\* The page has a computed author and a selector-cascade author, a heading
\* and a data-attribute title; the higher-ranked ones are in the record.
C9_Witness ==
    /\ calls = 1
    /\ Truthy(FromComputedAuthor(input))
    /\ Truthy(FromCssCascade(input))
    /\ Truthy(FromStructuredData(input, "author"))
    /\ Truthy(FromHeading(input, "title"))
    /\ Truthy(FromDataAttributes(input, "title"))
    /\ output[1].author = Str(<<"P", "i", "a", " ", "M", "o">>)
    /\ output[1].title = Str(<<"T", "o", "d">>)

\* No computed author, selector-cascade author or data attribute: the author
\* of the structured data is used, before the pattern over the description.
C9_WitnessLowerRanks ==
    /\ calls = 1
    /\ ~Truthy(FromComputedAuthor(input))
    /\ ~Truthy(FromCssCascade(input))
    /\ ~Truthy(FromDataAttributes(input, "author"))
    /\ Truthy(FromDescriptionPattern(input))
    /\ output[1].author = Str(<<"S", "a", "m", " ", "R", "o", "e">>)

\* ------------------------------------------------------ concurrent requests
\*
\* Several scrapeThalia calls run at the same time, interleaved at their
\* awaits.  What the calls can share is the browser and the files they write;
\* the record of a call is built from its own page only.

MaxRequests == 2

Procs == 1..MaxRequests

ScraperVersions == {"final", "server", "simple"}

InitialPageShot == "thalia-initial-page.png"
CookieConsentShot == "cookie-consent-debug.png"
ThaliaDebugShot == "thalia-debug.png"
ScreenshotPaths == {InitialPageShot, CookieConsentShot, ThaliaDebugShot}

InitConcurrent ==
    /\ NoRequest
    /\ UtcHost
    /\ input = Null
    /\ output = <<>>
    /\ calls = 0
    /\ procs \in [Procs -> [version : ScraperVersions, debug : BOOLEAN, pc : {"launch"},
                            browser : {0}]]
    /\ files = [path \in ScreenshotPaths |-> {}]

\* The number of browsers launched so far.
Launched == Cardinality({q \in Procs : procs[q].browser # 0})

\* page.screenshot({ path }) by request p
Screenshot(p, path) == [files EXCEPT ![path] = @ \cup {p}]

\* `const browser = await puppeteer.launch(...)`: a browser of its own.
ConLaunch(p) ==
    /\ procs[p].pc = "launch"
    /\ procs' = [procs EXCEPT ![p].pc = "navigate", ![p].browser = Launched + 1]
    /\ UNCHANGED <<files, ctlVars, funVars, envVars>>

\* page.goto and, in the final version with debug on, the screenshot of the
\* initial page.
ConNavigate(p) ==
    /\ procs[p].pc = "navigate"
    /\ procs' = [procs EXCEPT ![p].pc = "consent"]
    /\ files' = IF procs[p].version = "final" /\ procs[p].debug
                THEN Screenshot(p, InitialPageShot) ELSE files
    /\ UNCHANGED <<ctlVars, funVars, envVars>>

\* The cookie-consent step; handleCookieConsent of the final version begins
\* with a screenshot.
ConCookieConsent(p) ==
    /\ procs[p].pc = "consent"
    /\ procs' = [procs EXCEPT ![p].pc = "content"]
    /\ files' = IF procs[p].version = "final"
                THEN Screenshot(p, CookieConsentShot) ELSE files
    /\ UNCHANGED <<ctlVars, funVars, envVars>>

\* Up to page.content(); the combined server takes a screenshot before it.
ConContent(p) ==
    /\ procs[p].pc = "content"
    /\ procs' = [procs EXCEPT ![p].pc = "close"]
    /\ files' = IF procs[p].version = "simple"
                THEN Screenshot(p, ThaliaDebugShot) ELSE files
    /\ UNCHANGED <<ctlVars, funVars, envVars>>

\* finally { await browser.close() }
ConClose(p) ==
    /\ procs[p].pc = "close"
    /\ procs' = [procs EXCEPT ![p].pc = "done"]
    /\ UNCHANGED <<files, ctlVars, funVars, envVars>>

NextConcurrent ==
    \/ \E p \in Procs : ConLaunch(p)
    \/ \E p \in Procs : ConNavigate(p)
    \/ \E p \in Procs : ConCookieConsent(p)
    \/ \E p \in Procs : ConContent(p)
    \/ \E p \in Procs : ConClose(p)

SpecConcurrent == InitConcurrent /\ [][NextConcurrent]_vars

\* C11: concurrent requests share no state: no two requests use the same
\* browser, and no file is written by more than one request.
C11_NoSharedState ==
    /\ \A p, q \in Procs :
           (p # q /\ procs[p].browser # 0) => procs[p].browser # procs[q].browser
    /\ \A path \in ScreenshotPaths : Cardinality(files[path]) <= 1

\* ------------------------------------- the author named in the description
\*
\* scrapeThalia on a page whose only author-bearing source is its description:
\* the in-page probe applies its own two patterns to the description, then
\* extractBookData and the final author check run as on any page.

\* The description as the in-page probe reads it: the non-blank sibling
\* texts, trimmed, each followed by a space.
RECURSIVE DescText(_)
DescText(texts) ==
    IF texts = <<>> THEN <<>>
    ELSE (IF Trim(Head(texts)) # <<>> THEN Trim(Head(texts)) \o <<" ">> ELSE <<>>)
         \o DescText(Tail(texts))

\* The patterns of the in-page probe.
InPagePatterns ==
    << [kw |-> <<"v", "o", "n">>, seps |-> Whitespace],
       [kw |-> <<"a", "u", "t", "o", "r">>, seps |-> Whitespace] >>

InPageMatching(s) ==
    {k \in 1..Len(InPagePatterns) :
        PatternMatch(s, InPagePatterns[k].kw, InPagePatterns[k].seps) # <<>>}

\* authorData of a page without an author link.
AuthorInText(descText) ==
    IF InPageMatching(descText) = {} THEN Null
    ELSE Obj([name |-> Str(TrimmedMatch(descText, InPagePatterns[Least(InPageMatching(descText))])),
              source |-> Str(<<"d", "e", "s", "c", "r", "i", "p", "t", "i", "o", "n">>)])

MaxMustermann == <<"M", "a", "x", " ", "M", "u", "s", "t", "e", "r", "m", "a", "n", "n">>
VonMaxMustermann ==
    <<"v", "o", "n", " ", "M", "a", "x", " ", "M", "u", "s", "t", "e", "r", "m", "a", "n", "n">>

\* Text before and after "von Max Mustermann" in its sentence.
TextsBefore ==
    { <<>>, <<"E", "i", "n", " ", "R", "o", "m", "a", "n", " ">>, <<"N", "e", "u", ":", " ">>, <<"K", "r", "i", "m", "i", ",", " ">>, <<"D", "e", "r", " ", "F", "a", "l", "l", " ">>, <<"B", "a", "n", "d", " ", "2", " ">>,
      <<"E", "i", "n", "e", " ", "G", "e", "s", "c", "h", "i", "c", "h", "t", "e", " ", "v", "o", "n", " ", "M", "u", "t", ",", " ">>, <<"D", "a", "v", "o", "n", " ">>, <<"T", "o", "p", "!", " ">> }

TextsAfter ==
    { <<>>, <<".">>, <<",", " ", "n", "e", "u">>, <<"!">>, <<" ", "i", "s", "t", " ", "d", "a">>, <<" ", "-", " ", "n", "e", "u">>, <<" ", "V", "e", "r", "l", "a", "g">>, <<" ", "(", "H", "g", ".", ")">> }

\* The siblings under "Beschreibung": the sentence alone, or after a first paragraph.
SentenceSiblings(sentence) == { <<sentence>>, <<<<"S", "p", "a", "n", "n", "e", "n", "d", ".">>, sentence>> }

AuthorTextInputs ==
    { [BlankPage EXCEPT !.description = List(siblings),
                        !.authorData = AuthorInText(DescText(siblings))] :
        siblings \in UNION { SentenceSiblings(before \o VonMaxMustermann \o after) :
                               before \in TextsBefore, after \in TextsAfter } }

InitAuthorText ==
    /\ NoRequest
    /\ NoConcurrency
    /\ UtcHost
    /\ input \in AuthorTextInputs
    /\ output = <<>>
    /\ calls = 0

\* The Cheerio extraction of scrapeThalia on the page.
AuthorTextCall ==
    /\ calls = 0
    /\ ~ParseThrows(input, FALSE)
    /\ output' = <<ParsedRecord(input)>>
    /\ calls' = 1
    /\ input' = input
    /\ UNCHANGED <<ctlVars, conVars, envVars>>

SpecAuthorText == InitAuthorText /\ [][AuthorTextCall]_vars

\* C12: a page whose only author-bearing source is a description sentence
\* with "von Max Mustermann" yields the author "Max Mustermann", whatever
\* text surrounds the name.
C12_AuthorIsMaxMustermann ==
    calls = 1 => output[1].author = Str(MaxMustermann)

\* ------------------------------------------- failures of a single attempt

\* C13: a navigation that timed out does not fail the attempt: the attempt
\* goes on to read and extract the page, and no attempt ends with the
\* timeout as its error.
C13_TimeoutTolerated ==
    /\ pending # Threw("NavigationTimeout")
    /\ lastError # "NavigationTimeout"

\* C14: a navigation that failed with an error other than a timeout fails the
\* attempt: the attempt never goes on to read the page.
C14_NavigationErrorFailsAttempt ==
    ~(pc = "extract" /\ navResult = "error")

\* Every attempt of the request threw at puppeteer.launch.
EveryLaunchFailed ==
    /\ AllAttemptsFailed
    /\ launchCalls = req.opts.maxRetries
    /\ launches = <<>>

\* C15: when puppeteer.launch fails on every attempt, scrapeThaliaSafe
\* throws, and the handler answers with a server error.
C15_LaunchFailurePropagates ==
    (pc = "done" /\ req.entry.fn = "safe" /\ EveryLaunchFailed) =>
        /\ result.kind = "error"
        /\ req.entry.handler = "post" => response.status = 500

\* No call of puppeteer.launch of the request gave a browser.
NoBrowserAvailable == launchCalls >= 1 /\ launches = <<>>

\* C16: every response that is not a success has success: false and an error
\* text, and is given only for a URL the classifier rejects (or none at all)
\* or when the browser could not be launched at all.
C16_ErrorResponses ==
    (pc = "done" /\ req.entry.handler = "post" /\ response.status >= 400) =>
        /\ "success" \in DOMAIN response
        /\ response.success = FALSE
        /\ "error" \in DOMAIN response
        /\ ~isValidThaliaUrl(req.url) \/ NoBrowserAvailable

\* ------------------------------------------------------ validation warnings

\* The record the tail of scrapeThaliaSafe starts from, and the record it
\* hands to validateBookData.
Chosen == ChosenRecord(Version, req.url, bookData, partialData, lastError)

AfterFix(b, opts) == IF opts.fixData THEN fixBookData(b) ELSE b

AfterNormalize(b, opts) == IF opts.normalizeData THEN normalizeBookData(b) ELSE b

Validated == AfterNormalize(AfterFix(Chosen, req.opts), req.opts)

WithoutValidation(opts) == [opts EXCEPT !.validateData = FALSE]

SchemaFields ==
    { "title", "subtitle", "author", "series", "seriesNumber", "description",
      "format", "price", "isbn", "ean", "publisher", "publicationDate",
      "language", "pageCount", "coverUrl", "categories" }

\* C18: every record scrapeThaliaSafe returns (extracted, empty shell or
\* URL-derived) has every non-optional schema field, none absent.
C18_SchemaComplete ==
    (SafeDone /\ result.kind = "record") => SchemaFields \subseteq DOMAIN result.value
\* ---- fixBookData followed by normalizeBookData

\* Records of raw fields: each field empty or absent, a value its derived
\* field can be taken from, and a value with nothing to take.
DerivedInputs ==
    [ price : {Str(<<>>), Str(<<"9", ",", "9", "9">>), Str(<<"g", "r", "a", "t", "i", "s">>)},
      publicationDate : {Str(<<>>), Str(<<"1", ".", "2", ".", "2", "0", "2", "0">>), Str(<<"b", "a", "l", "d">>)},
      pageCount : {Str(<<>>), Str(<<"3", "2", "0", " ", "S", ".">>), Str(<<"k", "e", "i", "n", "e">>)},
      isbn : {Str(<<>>), Str(<<"3", "-", "1", "6", "-", "X">>), Str(<<"n", "/", "a">>)},
      ean : {Undefined, Str(<<"9", "7", "8", " ", "3", "1">>), Str(<<"o", "h", "n", "e">>)},
      language : {Str(<<>>), Str(<<"D", "e", "u", "t", "s", "c", "h">>), Str(<<"L", "a", "t", "e", "i", "n">>)} ]

InitDerived ==
    /\ NoRequest
    /\ NoConcurrency
    /\ UtcHost
    /\ input \in DerivedInputs
    /\ output = <<>>
    /\ calls = 0

\* How a call of fixBookData settles.
FixOutcome(r) ==
    IF fixBookDataThrows(r) THEN Threw("TypeError") ELSE Returned(fixBookData(r))

\* bookData = fixBookData(bookData)
FixCall ==
    /\ calls = 0
    /\ output' = <<FixOutcome(input)>>
    /\ calls' = 1
    /\ input' = input
    /\ UNCHANGED <<ctlVars, conVars, envVars>>

\* bookData = normalizeBookData(bookData), on the record the fixer returned.
NormalizeFixed ==
    /\ calls = 1
    /\ output[1].kind = "record"
    /\ output' = Append(output, NormalizeOutcome(output[1].value))
    /\ calls' = 2
    /\ input' = input
    /\ UNCHANGED <<ctlVars, conVars, envVars>>

SpecDerived == InitDerived /\ [][FixCall \/ NormalizeFixed]_vars

\* The derived fields with the raw field each is taken from.
DerivedFields ==
    { <<"priceValue", "price">>, <<"publicationDateISO", "publicationDate">>,
      <<"pageCountValue", "pageCount">>, <<"isbnClean", "isbn">>,
      <<"eanClean", "ean">>, <<"languageCode", "language">> }

\* A decimal number: digits, a comma or point, digits.
HasDecimal(s) ==
    \E i \in 1..(Len(s) - 2) :
        s[i] \in Digits /\ s[i + 1] \in {",", "."} /\ s[i + 2] \in Digits

\* The raw text holds what its derived field is taken from.
Parses(raw, s) ==
    CASE raw = "price" -> HasDecimal(s)
      [] raw = "publicationDate" -> GermanDateMatches(s) \/ GenericDateISO(s) # <<>>
      [] raw = "pageCount" -> \E k \in 1..Len(s) : s[k] \in Digits
      [] raw = "isbn" -> \E k \in 1..Len(s) : s[k] \in Digits \cup {"X"}
      [] raw = "ean" -> \E k \in 1..Len(s) : s[k] \in Digits
      [] raw = "language" -> LanguageCode(s) # Undefined

ParsedRaw(r, raw) ==
    /\ raw \in DOMAIN r
    /\ IsStr(r[raw])
    /\ r[raw].str # <<>>
    /\ Parses(raw, r[raw].str)

DerivedOnlyIfParsed(r) ==
    \A d \in DerivedFields : d[1] \in DOMAIN r => ParsedRaw(r, d[2])

\* C19: in every record the fixer and the normalizer produce, a derived
\* field is present only if its raw field is non-empty and parses; a raw
\* value that does not parse leaves the derived field absent.
C19_DerivedOnlyIfParsed ==
    \A k \in 1..Len(output) :
        output[k].kind = "record" => DerivedOnlyIfParsed(output[k].value)
\* ------------------------------------------------------- Amazon scraper
\*
\* isValidAmazonUrl, extractAsinFromUrl, fetchBookDataFromAmazon and the
\* handler of POST /api/scrape, in the combined server ("simple") and in the
\* axios-only server ("plain").

HostAmazonBare == <<"a", "m", "a", "z", "o", "n", ".", "d", "e">>
DpMarker == <<"/", "d", "p", "/">>
GpMarker == <<"/", "g", "p", "/", "p", "r", "o", "d", "u", "c", "t", "/">>

isValidAmazonUrl(u) ==
    /\ u.kind = "parsed"
    /\ u.hostname \in {HostAmazon, HostAmazonBare}
    /\ Includes(u.pathname, DpMarker) \/ Includes(u.pathname, GpMarker)

AsinLen == 10
AsinChars == UpperAscii \cup Digits

\* marker followed by [A-Z0-9]{10}, at i.
AsinMatchesAt(path, marker, i) ==
    /\ MatchesAt(path, marker, i)
    /\ i + Len(marker) + AsinLen - 1 <= Len(path)
    /\ \A k \in (i + Len(marker))..(i + Len(marker) + AsinLen - 1) : path[k] \in AsinChars

AsinMatches(path, marker) == \E i \in 1..Len(path) : AsinMatchesAt(path, marker, i)

AsinFrom(path, marker, i) == SubSeq(path, i + Len(marker), i + Len(marker) + AsinLen - 1)

\* The capture group of the leftmost match.
AsinOf(path, marker) ==
    AsinFrom(path, marker, Least({i \in 1..Len(path) : AsinMatchesAt(path, marker, i)}))

\* The ASIN of a URL, Null when neither pattern matches.
extractAsinFromUrl(u) ==
    IF u.kind # "parsed" THEN Null
    ELSE IF AsinMatches(u.pathname, DpMarker) THEN Str(AsinOf(u.pathname, DpMarker))
    ELSE IF AsinMatches(u.pathname, GpMarker) THEN Str(AsinOf(u.pathname, GpMarker))
    ELSE Null

UnknownTitle == <<"U", "n", "k", "n", "o", "w", "n", " ", "T", "i", "t", "l", "e">>
BookWithAsin == <<"B", "o", "o", "k", " ", "w", "i", "t", "h", " ", "A", "S", "I", "N", ":", " ">>
MediaPrefix == <<"h", "t", "t", "p", "s", ":", "/", "/", "m", ".", "m", "e", "d", "i", "a", "-", "a", "m", "a", "z", "o", "n", ".", "c", "o", "m", "/", "i", "m", "a", "g", "e", "s", "/", "I", "/">>
MediaSuffix == <<".", "j", "p", "g">>
Scheme == <<"h", "t", "t", "p", "s", ":">>

\* What the selectors find on a page: the product title, the author links
\* and the cover source, each trimmed.
AmazonPage(t, as, c) == [title |-> t, authors |-> as, cover |-> c]

\* bookData with its default values.
AmazonDefaults == AmazonPage(UnknownTitle, <<>>, <<>>)

\* url.split('/') of an https URL without query.
UrlParts(u) == <<Scheme, <<>>, u.hostname>> \o Tail(Split(u.pathname, "/"))

TitleCandidates(parts) ==
    SelectSeq(parts, LAMBDA part : /\ Len(part) > 5
                                   /\ ~Includes(part, <<"a", "m", "a", "z", "o", "n">>)
                                   /\ ~Includes(part, <<"d", "p">>))

\* The catch of the direct scraping: the title is taken from the last
\* candidate part of the URL.
TitleFromParts(b, candidates) ==
    IF candidates # <<>>
    THEN [b EXCEPT !.title = Trim(ReplaceDashes(candidates[Len(candidates)]))]
    ELSE b

UrlFallback(b, u) == TitleFromParts(b, TitleCandidates(UrlParts(u)))

\* The generic values for a title, an author list and a cover that are empty.
GenericTitle(b, asin) ==
    IF b.title = <<>> \/ b.title = UnknownTitle THEN BookWithAsin \o asin ELSE b.title

GenericAuthors(b) == IF b.authors = <<>> THEN <<UnknownAuthor>> ELSE b.authors

GenericCover(b, asin) == IF b.cover = <<>> THEN MediaPrefix \o asin \o MediaSuffix ELSE b.cover

\* authors.join(', ')
JoinAuthors(as) ==
    IF as = <<>> THEN <<>>
    ELSE IF Len(as) = 1 THEN as[1]
    ELSE as[1] \o <<",", " ">> \o as[2]

AmazonRecord(title, authors, cover, asin) ==
    [title |-> Str(title), author |-> Str(JoinAuthors(authors)), cover_url |-> Str(cover),
     asin |-> Str(asin)]

\* The record of the combined server, from bookData as the direct scraping or
\* its catch left it.
RecordWithGenerics(b, asin) ==
    AmazonRecord(GenericTitle(b, asin), GenericAuthors(b), GenericCover(b, asin), asin)

\* The outcomes of axios.get and of the extraction that follows it.
FetchOutcomes == {"page", "robotCheck", "networkError", "extractionThrows"}

\* The combined server: every failure of the direct scraping is caught and
\* answered from the URL.  An extraction that throws does so in the details
\* loop, after title, authors and cover were assigned.
FetchSimple(u, fetch, page, asin) ==
    CASE fetch = "page" -> Returned(RecordWithGenerics(page, asin))
      [] fetch = "extractionThrows" -> Returned(RecordWithGenerics(UrlFallback(page, u), asin))
      [] OTHER -> Returned(RecordWithGenerics(UrlFallback(AmazonDefaults, u), asin))

\* The page a robot check answers with: no selector finds anything.
AmazonBlank == AmazonPage(<<>>, <<>>, <<>>)

\* The axios-only server: no robot check, no generic values, and every error
\* is logged and thrown again.
FetchPlain(fetch, page, asin) ==
    CASE fetch = "page" -> Returned(AmazonRecord(page.title, page.authors, page.cover, asin))
      [] fetch = "robotCheck" -> Returned(AmazonRecord(<<>>, <<>>, <<>>, asin))
      [] fetch = "networkError" -> Threw("NetworkError")
      [] fetch = "extractionThrows" -> Threw("TypeError")

FetchWithAsin(version, u, fetch, page, asin) ==
    IF version = "simple" THEN FetchSimple(u, fetch, page, asin)
    ELSE FetchPlain(fetch, page, asin)

fetchBookDataFromAmazon(version, u, fetch, page) ==
    IF ~isValidAmazonUrl(u) THEN Threw("Invalid Amazon URL")
    ELSE IF extractAsinFromUrl(u) = Null THEN Threw("Could not extract ASIN from URL")
    ELSE FetchWithAsin(version, u, fetch, page, extractAsinFromUrl(u).str)

\* ---- POST /api/scrape

PathDp == <<"/", "d", "p", "/", "B", "0", "8", "X", "Y", "Z", "1", "2", "3", "4">>
PathGp == <<"/", "g", "p", "/", "p", "r", "o", "d", "u", "c", "t", "/", "3", "1", "6", "1", "4", "8", "4", "1", "0", "0">>
PathDpSlug == <<"/", "D", "e", "r", "-", "n", "e", "u", "e", "-", "R", "o", "m", "a", "n", "/", "d", "p", "/", "B", "0", "8", "X", "Y", "Z", "1", "2", "3", "4">>
PathDpShort == <<"/", "d", "p", "/", "3", "1", "6", "1", "4", "8", "4">>
PathDpLower == <<"/", "d", "p", "/", "b", "0", "8", "x", "y", "z", "1", "2", "3", "4">>

AmazonUrls ==
    { ParsedUrl(HostAmazon, PathDp), ParsedUrl(HostAmazonBare, PathGp),
      ParsedUrl(HostAmazon, PathDpSlug), ParsedUrl(HostAmazon, PathDpShort),
      ParsedUrl(HostAmazonBare, PathDpLower), ParsedUrl(HostThalia, PathDp),
      ParsedUrl(HostAmazon, PathHome), UnparsableUrl, MissingUrl }

AmazonPages ==
    { AmazonBlank,
      AmazonPage(<<"D", "e", "r", " ", "n", "e", "u", "e", " ", "R", "o", "m", "a", "n">>, <<<<"M", "a", "x", " ", "M", "u", "s", "t", "e", "r", "m", "a", "n", "n">>>>, <<"h", "t", "t", "p", "s", ":", "/", "/", "m", ".", "m", "e", "d", "i", "a", "-", "a", "m", "a", "z", "o", "n", ".", "c", "o", "m", "/", "i", "m", "a", "g", "e", "s", "/", "I", "/", "8", "1", ".", "j", "p", "g">>) }

AmazonVersions == {"simple", "plain"}

AmazonRequests ==
    [version : AmazonVersions, url : AmazonUrls, fetch : FetchOutcomes, page : AmazonPages]

InitAmazon ==
    /\ NoRequest
    /\ NoConcurrency
    /\ UtcHost
    /\ input \in AmazonRequests
    /\ output = <<>>
    /\ calls = 0

\* An answer without a record: the combined server adds success: false.
AmazonError(version, status, error) ==
    IF version = "simple" THEN [status |-> status, success |-> FALSE, error |-> error]
    ELSE [status |-> status, error |-> error]

\* The handler answers 400 for a missing or an invalid URL.
AmazonReject ==
    /\ calls = 0
    /\ ~isValidAmazonUrl(input.url)
    /\ output' = <<AmazonError(input.version, 400,
                               IF input.url.kind = "missing" THEN "URL is required"
                               ELSE "Invalid Amazon URL")>>
    /\ calls' = 2
    /\ input' = input
    /\ UNCHANGED <<ctlVars, conVars, envVars>>

\* await fetchBookDataFromAmazon(url)
AmazonFetch ==
    /\ calls = 0
    /\ isValidAmazonUrl(input.url)
    /\ output' = <<fetchBookDataFromAmazon(input.version, input.url, input.fetch, input.page)>>
    /\ calls' = 1
    /\ input' = input
    /\ UNCHANGED <<ctlVars, conVars, envVars>>

AmazonAnswer(version, outcome) ==
    IF outcome.kind = "record"
    THEN [status |-> 200, success |-> TRUE, bookData |-> outcome.value]
    ELSE AmazonError(version, 500, <<"Failed to scrape Amazon data: ", outcome.error>>)

\* The handler answers with the record, or with 500 in its catch.
AmazonRespond ==
    /\ calls = 1
    /\ output' = Append(output, AmazonAnswer(input.version, output[1]))
    /\ calls' = 2
    /\ input' = input
    /\ UNCHANGED <<ctlVars, conVars, envVars>>

SpecAmazon == InitAmazon /\ [][AmazonReject \/ AmazonFetch \/ AmazonRespond]_vars

\* C20: for every URL isValidAmazonUrl accepts and every outcome of the
\* fetch, fetchBookDataFromAmazon returns a record and POST /api/scrape
\* answers success: true.
C20_ValidAmazonUrlYieldsRecord ==
    (calls >= 1 /\ isValidAmazonUrl(input.url)) =>
        /\ output[1].kind = "record"
        /\ Len(output) = 2 => output[2].status = 200 /\ output[2].success = TRUE
\* ---- normalizeBookData: price

\* Raw prices: an optional lead, an integer part, an optional fraction and
\* an optional currency.
PriceLeads == {<<>>, <<"a", "b", " ">>, <<"E", "U", "R", " ">>}
PriceIntegers == {<<"1", "2">>, <<"0">>, <<"1", ".", "2", "3", "4">>}
PriceFractions == {<<>>, <<",", "9", "9">>, <<".", "5", "0">>, <<",", "5">>, <<",", "0", "0">>}
PriceCurrencies == {<<>>, <<" ", "€">>, <<"€">>, <<" ", "E", "U", "R">>}

PriceInputs ==
    { [price |-> Str(l \o n \o f \o c)] :
        l \in PriceLeads, n \in PriceIntegers, f \in PriceFractions, c \in PriceCurrencies }

InitPrice ==
    /\ NoRequest
    /\ NoConcurrency
    /\ UtcHost
    /\ input \in PriceInputs
    /\ output = <<>>
    /\ calls = 0

SpecPrice == InitPrice /\ [][NormalizeCall]_vars

\* A digits[,.]digits group starts at i with its separator at j.
GroupAt(s, i, j) ==
    /\ i < j /\ j < Len(s)
    /\ \A k \in i..(j - 1) : s[k] \in Digits
    /\ s[j] \in {",", "."}
    /\ s[j + 1] \in Digits

HasGroup(s) == \E i, j \in 1..Len(s) : GroupAt(s, i, j)

\* The first group: its start, its separator and the end of its fraction.
GroupStart(s) == CHOOSE i \in 1..Len(s) :
    /\ \E j \in 1..Len(s) : GroupAt(s, i, j)
    /\ \A h \in 1..(i - 1) : \A j \in 1..Len(s) : ~GroupAt(s, h, j)

GroupSeparator(s) == CHOOSE j \in 1..Len(s) : GroupAt(s, GroupStart(s), j)

GroupEnd(s) == CHOOSE e \in (GroupSeparator(s) + 1)..Len(s) :
    /\ \A k \in (GroupSeparator(s) + 1)..e : s[k] \in Digits
    /\ e = Len(s) \/ s[e + 1] \notin Digits

\* The digits of a fraction up to its last digit that is not 0.
Significant(ds) ==
    SubSeq(ds, 1, Greatest({0} \cup {k \in 1..Len(ds) : ds[k] # "0"}))

\* The number a group stands for, with the comma read as a decimal point.
GroupNumber(int, frac) ==
    IF Significant(frac) = <<>> THEN Num(DigitsToInt(int))
    ELSE [num |-> DigitsToInt(int), frac |-> Significant(frac)]

FirstGroupNumber(s) ==
    GroupNumber(SubSeq(s, GroupStart(s), GroupSeparator(s) - 1),
                SubSeq(s, GroupSeparator(s) + 1, GroupEnd(s)))

PriceNormalized(raw, r) ==
    /\ Includes(r.price.str, EuroSign)
    /\ r.price.str = IF Includes(raw, EuroSign) THEN raw ELSE raw \o EuroSuffix
    /\ IF HasGroup(raw)
       THEN "priceValue" \in DOMAIN r /\ r.priceValue = FirstGroupNumber(raw)
       ELSE "priceValue" \notin DOMAIN r

\* C21: for a non-empty raw price the normalized price holds the currency
\* symbol (" €" appended when it was missing) and priceValue is the number of
\* the first digits[,.]digits group with the comma read as a point; "12,99 €"
\* gives 12.99, and "12,99" gives "12,99 €" and 12.99.
C21_PriceNormalized ==
    calls = 1 =>
        /\ output[1].kind = "record"
        /\ PriceNormalized(input.price.str, output[1].value)
        /\ input.price.str \in {<<"1", "2", ",", "9", "9", " ", "€">>, <<"1", "2", ",", "9", "9">>} =>
             /\ output[1].value.price = Str(<<"1", "2", ",", "9", "9", " ", "€">>)
             /\ output[1].value.priceValue = [num |-> 12, frac |-> <<"9", "9">>]

\* "12,99" was normalized.
C21_Witness ==
    /\ calls = 1
    /\ input.price = Str(<<"1", "2", ",", "9", "9">>)
    /\ output[1].value.price = Str(<<"1", "2", ",", "9", "9", " ", "€">>)
    /\ output[1].value.priceValue = [num |-> 12, frac |-> <<"9", "9">>]
\* ---- normalizeBookData: publication date

DateLeads == {<<>>, <<"a", "b", " ">>}
DateDays == {<<"5">>, <<"0", "5">>, <<"1", "7">>}
DateMonths == {<<"3">>, <<"0", "3">>, <<"1", "2">>}
GermanDates ==
    { l \o d \o <<".">> \o m \o <<".", "2", "0", "2", "3">> : l \in DateLeads, d \in DateDays, m \in DateMonths }

\* Dates in the date-time string format, and texts that are no date.
IsoDates == {<<"2", "0", "2", "1", "-", "0", "3", "-", "1", "7">>, <<"2", "0", "2", "1">>}
LocalDateTimes ==
    {<<"2", "0", "2", "1", "-", "0", "3", "-", "1", "7", "T", "0", "0", ":", "0", "0", ":", "0", "0">>, <<"2", "0", "2", "1", "-", "0", "3", "-", "1", "7", "T", "1", "2", ":", "0", "0", ":", "0", "0">>, <<"2", "0", "2", "1", "-", "1", "2", "-", "3", "1", "T", "2", "3", ":", "3", "0", ":", "0", "0">>,
     <<"2", "0", "2", "1", "-", "0", "1", "-", "0", "1", "T", "0", "0", ":", "3", "0", ":", "0", "0">>}
NoDates == {<<"b", "a", "l", "d">>, <<"2", "0", "2", "1", "-", "0", "3">>}

DateInputs ==
    { [publicationDate |-> Str(s)] :
        s \in GermanDates \cup IsoDates \cup LocalDateTimes \cup NoDates }

\* Hosts west of, on and east of UTC.
HostZones == {0 - 5, 0, 1}

InitDate ==
    /\ NoRequest
    /\ NoConcurrency
    /\ zone \in HostZones
    /\ input \in DateInputs
    /\ output = <<>>
    /\ calls = 0

SpecDate == InitDate /\ [][NormalizeCall]_vars

\* The date a raw text names, <<>> when it names none: day.month.year after
\* the lead, or the date part of a date in the date-time string format.
WithoutLead(s) == IF StartsWith(s, <<"a", "b", " ">>) THEN SubSeq(s, 4, Len(s)) ELSE s

TwoDigits(ds) == IF Len(ds) = 1 THEN <<"0">> \o ds ELSE ds

FromDayMonthYear(parts) ==
    parts[3] \o <<"-">> \o TwoDigits(parts[2]) \o <<"-">> \o TwoDigits(parts[1])

NamedDate(s) ==
    IF s \in GermanDates THEN FromDayMonthYear(Split(WithoutLead(s), "."))
    ELSE IF s \in LocalDateTimes THEN SubSeq(s, 1, 10)
    ELSE IF s = <<"2", "0", "2", "1", "-", "0", "3", "-", "1", "7">> THEN s
    ELSE IF s = <<"2", "0", "2", "1">> THEN <<"2", "0", "2", "1", "-", "0", "1", "-", "0", "1">>
    ELSE <<>>

DateNormalized(raw, r) ==
    /\ r.publicationDate = Str(raw)
    /\ IF NamedDate(raw) # <<>>
       THEN "publicationDateISO" \in DOMAIN r /\ r.publicationDateISO = Str(NamedDate(raw))
       ELSE "publicationDateISO" \notin DOMAIN r

\* C22: a raw date in DD.MM.YYYY form gives publicationDateISO YYYY-MM-DD with
\* day and month padded to two digits; otherwise a generically parsable date
\* gives its ISO date; otherwise publicationDateISO is absent; the raw value
\* is kept.
C22_DateNormalized ==
    calls = 1 =>
        /\ output[1].kind = "record"
        /\ DateNormalized(input.publicationDate.str, output[1].value)
\* ---- the retry loop of scrapeThaliaSafe on its own

\* Direct calls of scrapeThaliaSafe with every number of retries.
RetryRequests ==
    { [entry |-> e, url |-> u, opts |-> Options(m, DefaultDelay(e.version), TRUE, TRUE, TRUE)] :
        e \in DirectSafe, u \in {ParsedUrl(HostThalia, PathSlug), UnparsableUrl},
        m \in 0..MaxRetries }

InitRetry == Init /\ req \in RetryRequests

NextRetry ==
    \/ SafeEnter
    \/ ScrapeEnter
    \/ Launch
    \/ Navigate
    \/ Extract
    \/ Close
    \/ AttemptReturned
    \/ AttemptThrew
    \/ BackoffElapsed

Positions ==
    {"safe", "scrape", "launch", "navigate", "extract", "close", "settled", "backoff", "done"}

\* Control moves on.  Every action of NextRetry moves control, and one of
\* them is enabled exactly when control is not at "done" (StepEnabled, an
\* invariant of SpecRetry), so a Progress step of SpecRetry is a NextRetry
\* step and Progress is enabled exactly when NextRetry is.
Progress == pc # "done" /\ pc' \in Positions \ {pc}

\* Every call the loop awaits settles, and the backoff timer fires.
SpecRetry == InitRetry /\ [][NextRetry]_vars /\ WF_pc(Progress)

StepEnabled ==
    /\ pc \in Positions
    /\ pc = "settled" => pending.kind \in {"record", "error"}

\* Attempts started so far: scrapeThalia validates the URL again and then
\* launches, so each attempt on a valid URL is one launch call.
Started == launchCalls

AttemptsBounded ==
    /\ Started <= req.opts.maxRetries
    /\ Len(outcomes) <= Started
    /\ Started >= 1 => attempt \in {Started, Started + 1}

\* A step that starts an attempt starts the next number, after the attempt
\* before it failed and its backoff elapsed, and never after a record or
\* after attempt maxRetries.
AttemptStartsInOrder ==
    Started' # Started =>
        /\ Started' = Started + 1
        /\ attempt = Started + 1
        /\ Started < req.opts.maxRetries
        /\ Len(outcomes) = Started
        /\ \A n \in 1..Started : outcomes[n] = "error"
        /\ Len(waits) = Started
        /\ Started >= 1 => waits[Started] = WaitTime(req.opts.retryDelay, Started)

\* C23: attempts run in order 1, 2, ... and at most maxRetries of them;
\* attempt n+1 starts only after attempt n failed and its backoff elapsed; no
\* attempt starts after a record or after attempt maxRetries failed; when
\* every render call settles, scrapeThaliaSafe reaches a final state.
C23_RetryProtocol ==
    /\ []AttemptsBounded
    /\ [][AttemptStartsInOrder]_vars
    /\ <>(pc = "done")

\* The loop ran to exhaustion after three or more failed attempts.
C23_Witness ==
    /\ pc = "done"
    /\ req.opts.maxRetries >= 3
    /\ Len(outcomes) = req.opts.maxRetries
    /\ \A n \in 1..Len(outcomes) : outcomes[n] = "error"
    /\ Len(waits) = req.opts.maxRetries - 1

\* ---- order of the stages

\* A record as fixBookData, normalizeBookData and the validation block leave
\* it: the fixer and the normalizer find nothing to change, and a record
\* that lacks a required field carries the warning.
PostProcessed(r) ==
    /\ ~fixBookDataThrows(r) /\ fixBookData(r) = r
    /\ ~normalizeBookDataThrows(r) /\ normalizeBookData(r) = r
    /\ ~validateBookData(r).isValid => "validationWarning" \in DOMAIN r

\* C24: every record answered for a Thalia URL has passed through the fixer,
\* then the normalizer, then the validator.
C24_RecordsPostProcessed ==
    (pc = "done" /\ req.entry.handler = "post" /\ response.status = 200) =>
        PostProcessed(response.bookData)
\* ---- fixBookData and normalizeBookData: page count

\* Page counts as the Details section and the structured data give them.
PageLeads == {<<>>, <<"c", "a", ".", " ">>, <<" ">>, <<"S", ".", " ">>}
PageDigits == {<<"3", "2", "0">>, <<"7">>, <<"0", "0", "1", "2">>}
PageTails == {<<>>, <<" ", "S", "e", "i", "t", "e", "n">>, <<" ", "S", ".">>}

PageCountInputs ==
    { [pageCount |-> Str(l \o d \o t)] : l \in PageLeads, d \in PageDigits, t \in PageTails }
    \cup { [pageCount |-> v] : v \in {Str(<<"k", "e", "i", "n", "e">>), Str(<<"k", ".", " ", "A", ".">>), Num(320), Num(7)} }

InitPageCount ==
    /\ NoRequest
    /\ NoConcurrency
    /\ UtcHost
    /\ input \in PageCountInputs
    /\ output = <<>>
    /\ calls = 0

SpecPageCount == InitPageCount /\ [][FixCall \/ NormalizeFixed]_vars

\* The integer a raw page count shows; the inputs hold one run of digits at most.
ShownPages(v) == IF IsNum(v) THEN v.num ELSE DigitsToInt(KeepOnly(v.str, Digits))

ShowsDigit(v) == IsNum(v) \/ KeepOnly(v.str, Digits) # <<>>

\* C25: for every page count the reconciler can produce, the fixer and then
\* the normalizer complete without throwing, and when the raw value holds a
\* digit, pageCountValue is the integer of its first run of digits.
C25_PageCountValue ==
    /\ \A k \in 1..Len(output) : output[k].kind = "record"
    /\ (calls = 2 /\ ShowsDigit(input.pageCount)) =>
           /\ "pageCountValue" \in DOMAIN output[2].value
           /\ output[2].value.pageCountValue = Num(ShownPages(input.pageCount))
\* ---- extractBookData: title and subtitle

TitleHeadings == {<<>>, <<"T", "o", "d", " ", "|", " ", "T", "e", "i", "l">>, <<"T", "o", "d">>, <<" ", "E", "i", "s", "|", "B", "a", "n", "d", " ">>}
TitleAttributes ==
    { Null, Obj("data-titel" :> Str(<<"D", "a", "t", "e", "n", " ", "|", " ", "H", "e", "f", "t">>)), Obj("data-titel" :> Str(<<"D", "a", "t", "e", "n">>)),
      Obj("data-ean" :> Str(<<"2", "2", "2">>)) }
TitleStructured ==
    { Null, Obj([name |-> Str(<<"S", "c", "h", "e", "m", "a", " ", "|", " ", "F", "o", "l", "g", "e">>)]), Obj([name |-> Str(<<"S", "c", "h", "e", "m", "a">>)]),
      Obj([isbn |-> Str(<<"3", "3", "3">>)]) }

TitleInputs ==
    { [BlankPage EXCEPT !.h1 = h, !.dataAttributes = d, !.structuredData = s] :
        h \in TitleHeadings, d \in TitleAttributes, s \in TitleStructured }

InitTitle ==
    /\ NoRequest
    /\ NoConcurrency
    /\ UtcHost
    /\ input \in TitleInputs
    /\ output = <<>>
    /\ calls = 0

SpecTitle == InitTitle /\ [][ExtractCall]_vars

\* The title of the highest-ranked source that has one.
WinningTitle(page) ==
    IF Trim(page.h1) # <<>> THEN Trim(page.h1)
    ELSE IF Truthy(FromDataAttributes(page, "title")) THEN FromDataAttributes(page, "title").str
    ELSE IF Truthy(FromStructuredData(page, "title")) THEN FromStructuredData(page, "title").str
    ELSE <<>>

SeparatorAt(t) == CHOOSE i \in 1..Len(t) : t[i] = "|"

BeforeSeparator(t) == Trim(SubSeq(t, 1, SeparatorAt(t) - 1))
AfterSeparator(t) == Trim(SubSeq(t, SeparatorAt(t) + 1, Len(t)))

TitleSplit(t, r) ==
    IF \E i \in 1..Len(t) : t[i] = "|"
    THEN r.title = Str(BeforeSeparator(t)) /\ r.subtitle = Str(AfterSeparator(t))
    ELSE r.title = Str(t) /\ r.subtitle = Str(<<>>)

\* C26: whichever source supplies the winning title, a title with the
\* separator "|" is split into title (before it) and subtitle (after it), and
\* a title without one leaves the subtitle empty.
C26_WinningTitleSplit ==
    calls = 1 => TitleSplit(WinningTitle(input), output[1])
\* ---- extractAuthorFromText: pattern order and shape of the result

FirstClauses ==
    { <<>>, <<"A", "u", "t", "o", "r", ":", " ", "E", "v", "a", " ", "K", "l", "e", "i", "n", ",", " ">>, <<"B", "y", " ", "T", "o", "m", " ", "H", "a", "r", "d", "y", ",", " ">>, <<"B", "e", "s", "t", "s", "e", "l", "l", "e", "r", "-", "A", "u", "t", "o", "r", " ", "J", "a", "n", " ", "W", "e", "i", "l", "e", "r", " ", "-", " ">> }

SecondClauses ==
    { <<>>, <<"v", "o", "n", " ", "M", "a", "x", " ", "M", "u", "s", "t", "e", "r", "m", "a", "n", "n">>, <<"R", "o", "m", "a", "n", " ", "v", "o", "n", " ", "m", "a", "x", " ", "m", "u", "s", "t", "e", "r", "m", "a", "n", "n">>, <<"v", "o", "n", " ", "d", "e", "r", " ", "A", "u", "t", "o", "r", "i", "n", " ", "A", "n", "n", "a", " ", "B", "l", "u", "m">>,
      <<"a", "u", "t", "h", "o", "r", ":", " ", "L", "i", " ", "W", "u", " ", "C", "h", "e", "n", " ", "M", "a", " ", "X", "i">>, <<"V", "o", "n", " ", "M", "e", "i", "e", "r">>, <<"e", "i", "n", " ", "B", "u", "c", "h", " ", "v", "o", "n", " ", "Ö", "l">> }

ClauseTails == { <<>>, <<".">>, <<" ", "i", "s", "t", " ", "d", "a">> }

PatternTexts ==
    { first \o second \o tail :
        first \in FirstClauses, second \in SecondClauses, tail \in ClauseTails }

InitPattern ==
    /\ NoRequest
    /\ NoConcurrency
    /\ UtcHost
    /\ input \in PatternTexts
    /\ output = <<>>
    /\ calls = 0

\* extractAuthorFromText(text)
AuthorFromTextCall ==
    /\ calls = 0
    /\ output' = <<extractAuthorFromText(input)>>
    /\ calls' = 1
    /\ input' = input
    /\ UNCHANGED <<ctlVars, conVars, envVars>>

SpecPattern == InitPattern /\ [][AuthorFromTextCall]_vars

\* A capital letter followed by one or more small letters.
CapitalizedWord(w) ==
    /\ Len(w) >= 2
    /\ w[1] \in UpperAscii
    /\ \A i \in 2..Len(w) : w[i] \in LowerAscii \cup LowerUmlaut

CapitalizedName(name) ==
    /\ Len(Split(name, " ")) \in 2..(1 + MaxExtraWords)
    /\ \A k \in 1..Len(Split(name, " ")) : CapitalizedWord(Split(name, " ")[k])

\* The first pattern of the list that matches somewhere in the text.
FirstMatching(text) == AuthorPatterns[Least(MatchingPatterns(text))]

\* C27: extractAuthorFromText returns the match of the first pattern of the
\* list that matches anywhere in the text, every non-empty result is 2 to 4
\* space-separated capitalized words, and the result is empty when no pattern
\* matches.
C27_FirstPatternCapitalizedName ==
    calls = 1 =>
        /\ MatchingPatterns(input) = {} => output[1] = <<>>
        /\ MatchingPatterns(input) # {} =>
               output[1] = TrimmedMatch(input, FirstMatching(input))
        /\ output[1] # <<>> => CapitalizedName(output[1])
\* ---- fixBookData: the series marker in the author

PierreLagrange == <<"P", "i", "e", "r", "r", "e", " ", "L", "a", "g", "r", "a", "n", "g", "e">>

MarkerAuthors ==
    { Str(<<>>), Null, Num(7), Str(PierreMartin), Str(<<"A", "n", "n", "a", " ", "B", "l", "u", "m">>), Str(SeriesMarker),
      Str(<<"B", "a", "n", "d", " ", "3", " ", "-", " ", "E", "i", "n", " ", "F", "a", "l", "l", " ", "f", "ü", "r", " ", "I", "s", "a", "b", "e", "l", "l", "e", " ", "B", "o", "n", "n", "e", "t", " ", "(", "K", "r", "i", "m", "i", ")">>),
      Str(<<"e", "i", "n", " ", "f", "a", "l", "l", " ", "f", "ü", "r", " ", "i", "s", "a", "b", "e", "l", "l", "e", " ", "b", "o", "n", "n", "e", "t">>) }

MarkerDescriptions ==
    { Undefined, Str(<<>>), Str(<<"S", "p", "a", "n", "n", "e", "n", "d", ".">>), Str(<<"K", "r", "i", "m", "i", " ", "v", "o", "n", " ", "P", "i", "e", "r", "r", "e", " ", "L", "a", "g", "r", "a", "n", "g", "e", ".">>),
      Str(<<"A", "u", "t", "o", "r", ":", " ", "a", "n", "n", "a", " ", "b", "l", "u", "m">>), Str(<<"v", "o", "n", " ", "E", "i", "n", " ", "F", "a", "l", "l", " ", "f", "ü", "r", " ", "I", "s", "a", "b", "e", "l", "l", "e", " ", "B", "o", "n", "n", "e", "t">>) }

MarkerInputs ==
    [ author : MarkerAuthors,
      description : MarkerDescriptions,
      language : {Str(<<>>), Str(Deutsch)},
      coverUrl : {Str(<<>>), Str(<<"c", ".", "j", "p", "g">>)} ]

InitMarker ==
    /\ NoRequest
    /\ NoConcurrency
    /\ UtcHost
    /\ input \in MarkerInputs
    /\ output = <<>>
    /\ calls = 0

SpecMarker == InitMarker /\ [][FixCall]_vars

HasMarker(v) == IsStr(v) /\ Includes(v.str, SeriesMarker)

\* What the text-pattern extractor finds in the description, <<>> without one.
FromDescription(r) ==
    IF Truthy(r.description) THEN extractAuthorFromText(r.description.str) ELSE <<>>

AuthorRepaired(r, fixed) ==
    /\ ~HasMarker(fixed.author)
    /\ HasMarker(r.author) =>
           fixed.author = (IF FromDescription(r) # <<>> THEN Str(FromDescription(r))
                           ELSE Str(PierreMartin))
    /\ ~HasMarker(r.author) => fixed.author = r.author

\* C28: after fixBookData the author never contains the series marker: an
\* author with the marker is replaced by what the text-pattern extractor finds
\* in the description, or by "Pierre Martin" when it finds nothing or there is
\* no description; an author without the marker is left as it was.
C28_SeriesMarkerRepaired ==
    (calls = 1 /\ output[1].kind = "record") => AuthorRepaired(input, output[1].value)

C28_Witness ==
    /\ calls = 1
    /\ output[1].kind = "record"
    /\ HasMarker(input.author)
    /\ input.description = Str(<<"v", "o", "n", " ", "E", "i", "n", " ", "F", "a", "l", "l", " ", "f", "ü", "r", " ", "I", "s", "a", "b", "e", "l", "l", "e", " ", "B", "o", "n", "n", "e", "t">>)
    /\ output[1].value.author = Str(<<"E", "i", "n", " ", "F", "a", "l", "l", " ", "f", "ü", "r", " ", "I", "s", "a", "b", "e", "l", "l", "e">>)
\* ---- scrapeThaliaSafe of the final version: partial data and the degraded record

\* The loop is left without a record: every attempt of maxRetries threw.
LoopExhausted ==
    /\ result # NoOutcome
    /\ req.opts.maxRetries >= 1
    /\ Len(outcomes) = req.opts.maxRetries
    /\ \A k \in 1..Len(outcomes) : outcomes[k] = "error"

\* `if (!bookData && partialData)`
PartialBranchTaken == bookData = Null /\ partialData # Null

\* The record is the one built from the URL.
IsDegraded(r) ==
    /\ r.kind = "record"
    /\ r.value.description = Str(ExtractionFailedText)
    /\ r.value.coverUrl = Str(PlaceholderCover)
    /\ r.value.title = Str(TitleOfSegment(LastSegment(req.url)))

\* C29: in scrapeThaliaSafe of the final version partialData is non-null only
\* if bookData is non-null, so the partial-data branch is never taken, and a
\* request whose attempts all threw until the loop was exhausted receives the
\* degraded record built from the URL.
C29_PartialNeverUsed ==
    (req.entry.fn = "safe" /\ Version = "final") =>
        /\ partialData # Null => bookData # Null
        /\ ~PartialBranchTaken
        /\ LoopExhausted => IsDegraded(result)

C29_Witness ==
    /\ req.entry.fn = "safe"
    /\ Version = "final"
    /\ req.opts.maxRetries >= 2
    /\ LoopExhausted
    /\ IsDegraded(result)
\* ---- scrapeThaliaSafe of the final version: the author after validation

\* No value, or a text of white space only.
NoText(v) == ~Truthy(v) \/ (IsStr(v) /\ Trim(v.str) = <<>>)

Warned(r, field) ==
    /\ "validationWarning" \in DOMAIN r
    /\ InList(r.validationWarning.missingFields, field)

AuthorSubstituted(before, r) ==
    /\ ~NoText(Get(r, "author"))
    /\ NoText(Get(before, "author")) =>
           Get(r, "author") = Str(UnknownAuthor) /\ Warned(r, "author")
    /\ NoText(Get(before, "title")) =>
           Get(r, "title") = Get(before, "title") /\ Warned(r, "title")

\* C30: with validateData on, every record scrapeThaliaSafe of the final
\* version returns has a non-empty author: a missing author becomes
\* "Unknown Author" while validationWarning.missingFields still lists
\* "author"; a missing title is not substituted and stays empty.
C30_AuthorNeverEmpty ==
    (SafeDone /\ Version = "final" /\ req.opts.validateData /\ result.kind = "record") =>
        AuthorSubstituted(Validated, result.value)

C30_Witness ==
    /\ SafeDone
    /\ Version = "final"
    /\ req.opts.validateData
    /\ result.kind = "record"
    /\ bookData # Null
    /\ NoText(Get(Validated, "author"))
    /\ NoText(Get(Validated, "title"))
    /\ result.value.author = Str(UnknownAuthor)
    /\ result.value.validationWarning.missingFields = <<"title", "author">>
====
